---- MODULE Spec2Model ----
(***************************************************************************)
(* eBird rare-bird viewer: the API client (lib/ebird-api), the request     *)
(* proxy (app/api/ebird/route.ts) and the page / map code that drives      *)
(* them.  Strings are TLA+ strings; JavaScript objects with optional       *)
(* fields are records whose DOMAIN holds the fields that are present.      *)
(***************************************************************************)
EXTENDS Integers, Sequences, FiniteSets, TLC

VARIABLES
    apiKey,          \* EBirdApiClient.apiKey of the singleton client
    calls,           \* the asynchronous makeRequest invocations, by call id
    netCalls,        \* number of fetch() calls the browser issued to the proxy
    upstreamCalls,   \* number of fetch() calls the proxy issued to eBird
    console,         \* the strings written to the console so far
    apiKeyState,     \* HomePage state: { apiKey, isValid, error }
    currentFilters,  \* HomePage state: the applied filters
    pendingFilters,  \* HomePage state: the filters being edited
    shouldFetchData, \* HomePage state
    mapLoaded,       \* HomePage state
    sightings,       \* BirdMap state
    loading,         \* BirdMap state
    error,           \* BirdMap state
    refs,            \* identities of the currentFilters / pendingFilters objects
    shown,           \* what React last committed, against the state the setters hold
    moduleLoaded,    \* the lib/ebird-api chunk has been loaded by import()
    options,         \* the options argument of the getNotableObservations under study
    runtime          \* the JavaScript runtime the client runs in

vars == <<apiKey, calls, netCalls, upstreamCalls, console, apiKeyState,
          currentFilters, pendingFilters, shouldFetchData, mapLoaded,
          sightings, loading, error, refs, shown, moduleLoaded, options, runtime>>

clientVars == <<apiKey, calls, netCalls, upstreamCalls, console>>
pageVars == <<apiKeyState, currentFilters, pendingFilters, shouldFetchData, mapLoaded,
              refs, shown, moduleLoaded>>
mapVars == <<sightings, loading, error>>

---------------------------------------------------------------------------
(* Bounds *)

\* calls a direct user of the client makes
MaxCalls == 2

\* calls the page and the map make
MaxUiCalls == 3

\* requests sent to the proxy route by a caller other than the client
MaxProxyCalls == 2

---------------------------------------------------------------------------
(* JavaScript string and number primitives *)

Min(a, b) == IF a < b THEN a ELSE b

\* String.prototype.substring(from, to), 0-based, end exclusive, clamped
Substring(s, from, to) == SubSeq(s, from + 1, Min(to, Len(s)))

\* String.prototype.includes
Includes(s, sub) ==
    \E i \in 1..(Len(s) - Len(sub) + 1) : SubSeq(s, i, i + Len(sub) - 1) = sub

Digit(d) == SubSeq("0123456789", d + 1, d + 1)

IsDigit(c) == \E d \in 0..9 : Digit(d) = c

DigitValue(c) == CHOOSE d \in 0..9 : Digit(d) = c

RECURSIVE NatToString(_)
NatToString(n) ==
    IF n < 10 THEN Digit(n) ELSE NatToString(n \div 10) \o Digit(n % 10)

\* String(value) for an integer value
NumberToString(n) == IF n < 0 THEN "-" \o NatToString(-n) ELSE NatToString(n)

\* String(value) for a boolean value
BooleanToString(b) == IF b THEN "true" ELSE "false"

\* the length of the longest prefix of s made of decimal digits
RECURSIVE DigitPrefixLen(_)
DigitPrefixLen(s) ==
    IF s = "" \/ ~IsDigit(Head(s)) THEN 0 ELSE 1 + DigitPrefixLen(Tail(s))

RECURSIVE DigitsValue(_, _)
DigitsValue(s, acc) ==
    IF s = "" THEN acc ELSE DigitsValue(Tail(s), 10 * acc + DigitValue(Head(s)))

\* parseInt(s): an optional sign, then the leading decimal digits; NaN when
\* there are none
ParseIntIsNaN(s) ==
    LET body == IF s # "" /\ Head(s) \in {"-", "+"} THEN Tail(s) ELSE s
    IN  DigitPrefixLen(body) = 0

ParseInt(s) ==
    LET neg  == s # "" /\ Head(s) = "-"
        body == IF s # "" /\ Head(s) \in {"-", "+"} THEN Tail(s) ELSE s
        n    == DigitsValue(SubSeq(body, 1, DigitPrefixLen(body)), 0)
    IN  IF neg THEN -n ELSE n

\* a field of a JavaScript object is present
Has(o, f) == f \in DOMAIN o

---------------------------------------------------------------------------
(* URLs: URLSearchParams is a list of <<key, value>> pairs *)

\* application/x-www-form-urlencoded serialisation of one character
FormEncodeChar(c) ==
    CASE c = "/" -> "%2F"
      [] c = "?" -> "%3F"
      [] c = "=" -> "%3D"
      [] c = "&" -> "%26"
      [] c = "," -> "%2C"
      [] c = " " -> "+"
      [] OTHER   -> c

RECURSIVE FormEncode(_)
FormEncode(s) ==
    IF s = "" THEN "" ELSE FormEncodeChar(Head(s)) \o FormEncode(Tail(s))

\* URLSearchParams.toString()
RECURSIVE SearchParamsToString(_)
SearchParamsToString(ps) ==
    IF ps = <<>> THEN ""
    ELSE FormEncode(Head(ps)[1]) \o "=" \o FormEncode(Head(ps)[2])
         \o (IF Len(ps) > 1 THEN "&" ELSE "")
         \o SearchParamsToString(Tail(ps))

\* URL.toString() of a URL with the given origin + path and search params
UrlToString(base, ps) ==
    base \o (IF ps = <<>> THEN "" ELSE "?" \o SearchParamsToString(ps))

\* the first position of character c in s, 0 when there is none
RECURSIVE IndexOfFrom(_, _, _)
IndexOfFrom(s, c, i) ==
    IF i > Len(s) THEN 0
    ELSE IF SubSeq(s, i, i) = c THEN i
    ELSE IndexOfFrom(s, c, i + 1)

IndexOf(s, c) == IndexOfFrom(s, c, 1)

\* one "key=value" segment of a query string
ParsePair(seg) ==
    LET e == IndexOf(seg, "=")
    IN  IF e = 0 THEN <<seg, "">>
        ELSE <<SubSeq(seg, 1, e - 1), SubSeq(seg, e + 1, Len(seg))>>

\* the search params of a query string (the part after "?")
RECURSIVE ParseQueryString(_)
ParseQueryString(q) ==
    IF q = "" THEN <<>>
    ELSE LET a    == IndexOf(q, "&")
             seg  == IF a = 0 THEN q ELSE SubSeq(q, 1, a - 1)
             rest == IF a = 0 THEN "" ELSE SubSeq(q, a + 1, Len(q))
         IN  (IF seg = "" THEN <<>> ELSE <<ParsePair(seg)>>)
             \o ParseQueryString(rest)

\* new URL(text): the path and the search params of an absolute URL
ParseUrl(text) ==
    LET q == IndexOf(text, "?")
    IN  IF q = 0 THEN [path |-> text, query |-> <<>>]
        ELSE [path  |-> SubSeq(text, 1, q - 1),
              query |-> ParseQueryString(SubSeq(text, q + 1, Len(text)))]

\* URLSearchParams.get(name): the first value of that name, Null when absent
Null == "<null>"

RECURSIVE SearchParamsGet(_, _)
SearchParamsGet(ps, name) ==
    IF ps = <<>> THEN Null
    ELSE IF Head(ps)[1] = name THEN Head(ps)[2]
    ELSE SearchParamsGet(Tail(ps), name)

SearchParamsHas(ps, name) == \E i \in 1..Len(ps) : ps[i][1] = name

\* all values of that name, in order
RECURSIVE SearchParamsGetAll(_, _)
SearchParamsGetAll(ps, name) ==
    IF ps = <<>> THEN <<>>
    ELSE (IF Head(ps)[1] = name THEN <<Head(ps)[2]>> ELSE <<>>)
         \o SearchParamsGetAll(Tail(ps), name)

---------------------------------------------------------------------------
(* HTTP bodies and JSON values *)

\* JSON values: an array of records, or an object
JArray(items)   == [type |-> "array", items |-> items]
JObject(fields) == [type |-> "object", fields |-> fields]

IsArray(v) == v.type = "array"

\* a body is either JSON text (held as the value it denotes) or other text
JsonBody(v) == [kind |-> "json", value |-> v, text |-> ""]
TextBody(t) == [kind |-> "text", value |-> JObject([none |-> TRUE]), text |-> t]
NoBody == TextBody("")

\* JSON.stringify of the values whose text the program reads
RECURSIVE StringifyItems(_)
StringifyItems(items) ==
    IF items = <<>> THEN ""
    ELSE "{\"obsId\":\"" \o Head(items).obsId \o "\"}"
         \o (IF Len(items) > 1 THEN "," ELSE "")
         \o StringifyItems(Tail(items))

JsonStringify(v) ==
    IF IsArray(v) THEN "[" \o StringifyItems(v.items) \o "]"
    ELSE IF Has(v.fields, "error") THEN
        "{\"error\":\"" \o v.fields.error \o "\""
        \o (IF Has(v.fields, "details")
            THEN ",\"details\":\"" \o v.fields.details \o "\"" ELSE "")
        \o "}"
    ELSE IF Has(v.fields, "message") THEN
        "{\"message\":\"" \o v.fields.message \o "\"}"
    ELSE "{}"

\* Response.text()
BodyText(b) == IF b.kind = "json" THEN JsonStringify(b.value) ELSE b.text

\* Response.json() succeeds
BodyParses(b) == b.kind = "json"

\* Response.ok
IsOk(status) == status >= 200 /\ status <= 299

\* the reason phrase that accompanies a status on the wire
StatusText(status) ==
    CASE status = 200 -> "OK"
      [] status = 201 -> "Created"
      [] status = 304 -> "Not Modified"
      [] status = 400 -> "Bad Request"
      [] status = 401 -> "Unauthorized"
      [] status = 403 -> "Forbidden"
      [] status = 404 -> "Not Found"
      [] status = 429 -> "Too Many Requests"
      [] status = 500 -> "Internal Server Error"
      [] OTHER        -> ""

\* the content-type a body is sent with: NextResponse.json and the upstream
\* label JSON as application/json, a text body goes out as text/plain
ContentType(body) ==
    IF body.kind = "json" THEN "application/json" ELSE "text/plain;charset=UTF-8"

HttpResponse(status, body) ==
    [status |-> status, statusText |-> StatusText(status), body |-> body,
     contentType |-> ContentType(body)]

NoResponse == HttpResponse(0, NoBody)

---------------------------------------------------------------------------
(* The API client: lib/ebird-api *)

EBIRD_API_BASE == "https://api.ebird.org/v2"

\* new URL('/api/ebird', window.location.origin)
ProxyUrlBase == "http://localhost:3000/api/ebird"

\* the length of the prefix of the credential the code means to log
LoggedPrefixLen == 8

\* this.apiKey before setApiKey was ever called
Undefined == "<undefined>"

\* JavaScript truthiness of a string-or-undefined value
Truthy(s) == s # Undefined /\ s # Null /\ s # ""

\* what an async function produced: a returned value or a thrown error
NoData == JObject([none |-> TRUE])
Returned(data)       == [threw |-> FALSE, data |-> data, name |-> "", message |-> ""]
Threw(name, message) == [threw |-> TRUE, data |-> NoData, name |-> name, message |-> message]
NoOutcome == Threw("", "")

\* makeRequest, the guard on this.apiKey
MissingKeyError ==
    Threw("Error", "API key is required. Please add your eBird API key in the header.")

\* the runtimes whose fetch() the client is run with: a browser (Chrome) and
\* Node
Runtimes == {"browser", "node"}

\* fetch() rejected: no HTTP response at all.  The error is a TypeError
\* whose text the runtime makes
FetchRejection ==
    Threw("TypeError", IF runtime = "node" THEN "fetch failed" ELSE "Failed to fetch")

\* a body stream that ends in an error: response.text() / response.json()
\* reject with the stream's error, a TypeError in the runtime's words
BodyRejection ==
    Threw("TypeError", IF runtime = "node" THEN "terminated" ELSE "network error")

\* response.json() rejected for a text that is not JSON: the SyntaxError of
\* JSON.parse, in the wording of V8 11 and later (the text is short enough
\* to be quoted whole)
JsonRejection(text) ==
    Threw("SyntaxError",
          IF text = "" THEN "Unexpected end of JSON input"
          ELSE "Unexpected token '" \o Substring(text, 0, 1) \o "', \"" \o text
               \o "\" is not valid JSON")

\* StatusError with the 403 branch lost: 403 is reported like 401
StatusErrorMerged(resp) ==
    IF resp.status = 401 \/ resp.status = 403 THEN
        Threw("Error", "Invalid API key. Please check your eBird API key. Status: "
                       \o NumberToString(resp.status))
    ELSE IF resp.status = 429 THEN
        Threw("Error", "Rate limit exceeded. Please try again later.")
    ELSE
        Threw("Error", "eBird API error: " \o NumberToString(resp.status) \o " "
                       \o resp.statusText \o ". Details: " \o BodyText(resp.body))

\* makeRequest, the branch for !response.ok
StatusError(resp) ==
    LET errorText == BodyText(resp.body)
    IN  IF resp.status = 401 THEN
            Threw("Error", "Invalid API key. Please check your eBird API key. Status: "
                           \o NumberToString(resp.status))
        ELSE IF resp.status = 429 THEN
            Threw("Error", "Rate limit exceeded. Please try again later.")
        ELSE IF resp.status = 403 THEN
            Threw("Error", "Access forbidden. Please check your API key permissions.")
        ELSE
            Threw("Error", "eBird API error: " \o NumberToString(resp.status) \o " "
                           \o resp.statusText \o ". Details: " \o errorText)

\* MakeRequestOnReject wrapping the failure as an API error
MakeRequestOnRejectWrapped(err) ==
    Threw("Error", "eBird API error: 500 Internal Server Error. Details: " \o err.message)

\* makeRequest, the catch block: logs and rethrows what was caught
MakeRequestOnReject(err) == err

\* makeRequest from the arrival of the proxy's response to its return / throw
MakeRequestOnResponse(resp) ==
    IF ~IsOk(resp.status) THEN StatusError(resp)
    ELSE IF ~BodyParses(resp.body) THEN JsonRejection(BodyText(resp.body))
    ELSE Returned(resp.body.value)

\* ProxyRequestParams leaving out the endpoint
ProxyRequestParamsNoEndpoint(endpoint, key, ps) ==
    <<<<"apiKey", key>>>> \o ps

\* makeRequest, the search params of the proxy URL
ProxyRequestParams(endpoint, key, ps) ==
    <<<<"endpoint", endpoint>>, <<"apiKey", key>>>> \o ps

\* NotableParams with hotspot sent as given, without its default
NotableParamsNoHotspotDefault(o) ==
    LET back      == IF Has(o, "back") /\ o.back # 0 THEN o.back ELSE 14
        detail    == IF Has(o, "detail") /\ o.detail # "" THEN o.detail ELSE "full"
        sppLocale == IF Has(o, "sppLocale") /\ o.sppLocale # "" THEN o.sppLocale ELSE "en"
    IN  << <<"back", NumberToString(back)>>,
           <<"detail", detail>> >>
        \o (IF Has(o, "hotspot")
            THEN << <<"hotspot", BooleanToString(o.hotspot)>> >> ELSE <<>>)
        \o << <<"sppLocale", sppLocale>> >>
        \o (IF Has(o, "maxResults") /\ o.maxResults # 0
            THEN << <<"maxResults", NumberToString(o.maxResults)>> >> ELSE <<>>)
        \o (IF Has(o, "r") /\ o.r # "" THEN << <<"r", o.r>> >> ELSE <<>>)

\* getNotableObservations: the params object, each value as makeRequest
\* appends it (String(value)), in insertion order
NotableParams(o) ==
    LET back      == IF Has(o, "back") /\ o.back # 0 THEN o.back ELSE 14
        detail    == IF Has(o, "detail") /\ o.detail # "" THEN o.detail ELSE "full"
        hotspot   == IF Has(o, "hotspot") THEN o.hotspot ELSE FALSE
        sppLocale == IF Has(o, "sppLocale") /\ o.sppLocale # "" THEN o.sppLocale ELSE "en"
    IN  << <<"back", NumberToString(back)>>,
           <<"detail", detail>>,
           <<"hotspot", BooleanToString(hotspot)>>,
           <<"sppLocale", sppLocale>> >>
        \o (IF Has(o, "maxResults") /\ o.maxResults # 0
            THEN << <<"maxResults", NumberToString(o.maxResults)>> >> ELSE <<>>)
        \o (IF Has(o, "r") /\ o.r # "" THEN << <<"r", o.r>> >> ELSE <<>>)

\* getNotableObservations: the endpoint it passes to makeRequest
NotableEndpoint(regionCode) == "/data/obs/" \o regionCode \o "/recent/notable"

\* ValidateEndpoint without the window and the result cap
ValidateEndpointUnbounded == "/data/obs/US/recent/notable"

\* validateApiKey: the endpoint it passes to makeRequest (no params object)
ValidateEndpoint == "/data/obs/US/recent/notable?back=1&maxResults=1"

\* validateApiKey: try { await makeRequest; return true } catch { return false }
ValidateResult(outcome) == ~outcome.threw

\* validateApiKey, the two console.log before the request
ValidateLogs(key) ==
    { "Validating API key...",
      "Current API key: "
          \o (IF Truthy(key) THEN Substring(key, 0, LoggedPrefixLen) \o "..." ELSE "not set") }

\* an error as the console shows it
ErrorText(err) == err.name \o ": " \o err.message

\* validateApiKey, the console line once makeRequest settled
ValidateOutcomeLogs(outcome) ==
    IF outcome.threw THEN {"API key validation failed: " \o ErrorText(outcome)}
    ELSE {"API key validation successful: " \o JsonStringify(outcome.data)}

---------------------------------------------------------------------------
(* The request proxy: app/api/ebird/route.ts *)

ErrorBody(text) == JsonBody(JObject([error |-> text]))

\* ProxyRejection without the check of the endpoint
ProxyRejectionKeyOnly(ps) ==
    IF ~Truthy(SearchParamsGet(ps, "apiKey"))
        THEN HttpResponse(400, ErrorBody("API key is required"))
    ELSE NoResponse

\* GET, the two parameter checks
ProxyRejection(ps) ==
    IF ~Truthy(SearchParamsGet(ps, "endpoint"))
        THEN HttpResponse(400, ErrorBody("Endpoint parameter is required"))
    ELSE IF ~Truthy(SearchParamsGet(ps, "apiKey"))
        THEN HttpResponse(400, ErrorBody("API key is required"))
    ELSE NoResponse

ProxyRejects(ps) == ProxyRejection(ps) # NoResponse

\* searchParams.forEach: every param except endpoint and apiKey, in order
RECURSIVE CopyParams(_)
CopyParams(ps) ==
    IF ps = <<>> THEN <<>>
    ELSE (IF Head(ps)[1] # "endpoint" /\ Head(ps)[1] # "apiKey"
          THEN <<Head(ps)>> ELSE <<>>) \o CopyParams(Tail(ps))

RECURSIVE Reverse(_)
Reverse(q) == IF q = <<>> THEN <<>> ELSE Reverse(Tail(q)) \o <<Head(q)>>

\* UpstreamRequest copying the parameters in reverse order
UpstreamRequestReordered(ps) ==
    LET url == ParseUrl(EBIRD_API_BASE \o SearchParamsGet(ps, "endpoint"))
    IN  [path    |-> url.path,
         query   |-> url.query \o Reverse(CopyParams(ps)),
         token   |-> SearchParamsGet(ps, "apiKey"),
         agent   |-> "eBird-Rare-Alerts/1.0"]

\* UpstreamRequest leaving the credential among the query parameters
UpstreamRequestKeyInQuery(ps) ==
    LET url == ParseUrl(EBIRD_API_BASE \o SearchParamsGet(ps, "endpoint"))
    IN  [path    |-> url.path,
         query   |-> url.query \o CopyParams(ps)
                         \o << <<"apiKey", SearchParamsGet(ps, "apiKey")>> >>,
         token   |-> "",
         agent   |-> "eBird-Rare-Alerts/1.0"]

\* GET, the upstream request: URL and headers
UpstreamRequest(ps) ==
    LET url == ParseUrl(EBIRD_API_BASE \o SearchParamsGet(ps, "endpoint"))
    IN  [path    |-> url.path,
         query   |-> url.query \o CopyParams(ps),
         token   |-> SearchParamsGet(ps, "apiKey"),
         agent   |-> "eBird-Rare-Alerts/1.0"]

NoUpstreamRequest == [path |-> "", query |-> <<>>, token |-> "", agent |-> ""]

\* the statuses of a response that can have no body
NullBodyStatus(status) == status \in {101, 103, 204, 205, 304}

\* NextResponse.json(body, {status}) builds a Response with a body: the
\* constructor throws a RangeError for a status outside 200..599 and a
\* TypeError for a status that can have no body
ResponseInitThrows(status) ==
    status < 200 \/ status > 599 \/ NullBodyStatus(status)

\* ProxyCatch answering as a gateway would
ProxyCatchBadGateway == HttpResponse(502, ErrorBody("Bad gateway"))

\* GET, the catch block
ProxyCatch == HttpResponse(500, ErrorBody("Failed to fetch data from eBird API"))

\* ProxyOnUpstreamResponse answering 500 for every upstream error
ProxyOnUpstreamResponseCollapsed(r) ==
    IF ~IsOk(r.status) THEN
        HttpResponse(500,
            JsonBody(JObject([error   |-> "eBird API error: " \o NumberToString(r.status)
                                          \o " " \o r.statusText,
                              details |-> BodyText(r.body)])))
    ELSE IF ~BodyParses(r.body) THEN ProxyCatch
    ELSE HttpResponse(200, JsonBody(r.body.value))

\* ProxyOnUpstreamResponse relaying the records in reverse order
ProxyOnUpstreamResponseReversed(r) ==
    IF ~IsOk(r.status) THEN
        IF ResponseInitThrows(r.status) THEN ProxyCatch
        ELSE HttpResponse(r.status,
            JsonBody(JObject([error   |-> "eBird API error: " \o NumberToString(r.status)
                                          \o " " \o r.statusText,
                              details |-> BodyText(r.body)])))
    ELSE IF ~BodyParses(r.body) THEN ProxyCatch
    ELSE IF IsArray(r.body.value)
        THEN HttpResponse(200, JsonBody(JArray(Reverse(r.body.value.items))))
    ELSE HttpResponse(200, JsonBody(r.body.value))

\* GET, from the arrival of the upstream response to the proxy's response.
\* NextResponse.json(body, {status}) is inside the try block: when it throws
\* for the upstream's status, the catch block answers
ProxyOnUpstreamResponse(r) ==
    IF ~IsOk(r.status) THEN
        IF ResponseInitThrows(r.status) THEN ProxyCatch
        ELSE HttpResponse(r.status,
            JsonBody(JObject([error   |-> "eBird API error: " \o NumberToString(r.status)
                                          \o " " \o r.statusText,
                              details |-> BodyText(r.body)])))
    ELSE IF ~BodyParses(r.body) THEN ProxyCatch
    ELSE HttpResponse(200, JsonBody(r.body.value))

---------------------------------------------------------------------------
(* Input domains *)

\* credentials a user may submit: one no longer than the logged prefix, one longer
Keys == {"abc123", "abcdefgh12345"}

\* the region a user types into the filter panel (the default is US)
Regions == {"US-NY"}

S1 == [obsId |-> "OBS1"]
S2 == [obsId |-> "OBS2"]

\* Partial<FilterOptions> values passed by a direct caller of the client
EmptyOptions == [f \in {} |-> 0]
DirectOptions == {[back |-> 7, hotspot |-> TRUE]}

\* the upstream's answers to getNotableObservations called directly
DirectUpstreamResponses ==
    { HttpResponse(200, JsonBody(JArray(<<S2, S1, S1>>))),
      HttpResponse(200, JsonBody(JObject([message |-> "hello"]))) }
    \cup { HttpResponse(st, TextBody("detail")) : st \in {401, 403, 404, 429} }

\* the upstream's answers to validateApiKey called directly
DirectProbeResponses ==
    { HttpResponse(200, JsonBody(JArray(<<S2, S1, S1>>))),
      HttpResponse(200, JsonBody(JObject([message |-> "hello"]))),
      HttpResponse(200, TextBody("<html>")),
      HttpResponse(401, TextBody("detail")) }

\* the upstream's answer where the study is of something else
PlainUpstreamResponses == { HttpResponse(200, JsonBody(JArray(<<S2, S1, S1>>))) }

\* the upstream's answers to a request sent to the proxy by any HTTP caller
RawUpstreamResponses ==
    { HttpResponse(200, JsonBody(JArray(<<S2, S1, S1>>))),
      HttpResponse(201, JsonBody(JArray(<<S1>>))),
      HttpResponse(200, TextBody("<html>")),
      HttpResponse(404, JsonBody(JObject([error |-> "not found"]))),
      HttpResponse(304, TextBody("")),
      HttpResponse(600, TextBody("detail")) }

\* the upstream's answers to a request made by the map
UiUpstreamResponses ==
    { HttpResponse(200, JsonBody(JArray(<<S1, S2>>))),
      HttpResponse(200, JsonBody(JArray(<<S2>>))),
      HttpResponse(500, TextBody("detail")) }

\* the upstream's answers to the page's validation probe: the key is
\* accepted or refused
UiProbeResponses ==
    { HttpResponse(200, JsonBody(JArray(<<S2>>))),
      HttpResponse(401, TextBody("detail")) }

---------------------------------------------------------------------------
(* Asynchronous calls *)

CallIds == DOMAIN calls

DEFAULT_FILTERS ==
    [regionCode |-> "US", back |-> 14, detail |-> "full", hotspot |-> FALSE,
     sppLocale |-> "en"]

NoValidation == [threw |-> FALSE, value |-> FALSE]

IdleCall ==
    [pc         |-> "idle",       \* idle, import, toProxy, toUpstream, upBody,
                                  \* toClient, body, done, dropped
     origin     |-> "",           \* direct, map, page
     op         |-> "",           \* get, validate
     keyArg     |-> "",           \* the apiKey the calling closure holds
     filters    |-> DEFAULT_FILTERS, \* the filters the calling closure holds
     key        |-> "",           \* this.apiKey when the request was built
     req        |-> <<>>,         \* search params of the proxy URL
     up         |-> NoUpstreamRequest,
     upFailed   |-> FALSE,        \* the proxy's fetch rejected
     upResp     |-> NoResponse,   \* the upstream's response
     upBodyFailed |-> FALSE,      \* the proxy's read of the upstream's body rejected
     resp       |-> NoResponse,   \* the proxy's response
     netFailed  |-> FALSE,        \* the browser's fetch rejected
     bodyFailed |-> FALSE,        \* the browser's read of the body rejected
     result     |-> NoOutcome,    \* outcome of makeRequest
     validation |-> NoValidation] \* outcome of validateApiKey

HasFree(cs) == \E i \in DOMAIN cs : cs[i].pc = "idle"

\* calls are numbered in the order they are started
FreeId(cs) == CHOOSE i \in DOMAIN cs :
                 cs[i].pc = "idle" /\ \A j \in 1..(i - 1) : cs[j].pc # "idle"

\* ValidateApiKey catching only errors of class Error
ValidateApiKeyRethrow(outcome) ==
    IF outcome.threw /\ outcome.name # "Error"
    THEN [threw |-> TRUE, value |-> FALSE]
    ELSE [threw |-> FALSE, value |-> ~outcome.threw]

\* validateApiKey: the boolean it returns; its try/catch lets nothing escape
ValidateApiKey(outcome) == [threw |-> FALSE, value |-> ValidateResult(outcome)]

\* the call record once makeRequest has returned or thrown
Finished(c, outcome) ==
    [c EXCEPT !.pc = "done", !.result = outcome,
              !.validation = IF c.op = "validate" THEN ValidateApiKey(outcome)
                             ELSE NoValidation]

\* MakeRequest without the guard on this.apiKey
MakeRequestNoGuard(key, c, endpoint, ps) ==
    [c EXCEPT !.pc = "toProxy", !.key = key,
              !.req = ProxyRequestParams(endpoint, key, ps)]

\* makeRequest up to its await of fetch(), key being this.apiKey: throws
\* when no key is set, otherwise builds the proxy URL and sends it
MakeRequest(key, c, endpoint, ps) ==
    IF ~Truthy(key) THEN Finished(c, MissingKeyError)
    ELSE [c EXCEPT !.pc = "toProxy", !.key = key,
                   !.req = ProxyRequestParams(endpoint, key, ps)]

\* the logs a request writes: validateApiKey's lines, then makeRequest's two
\* lines when it gets as far as building the URL; when makeRequest threw
\* for want of a key, validateApiKey's catch block logs the error
RequestLogs(key, c) ==
    (IF c.op = "validate" THEN ValidateLogs(key) ELSE {})
    \cup (IF c.pc = "toProxy"
          THEN {"Making API request to proxy: " \o UrlToString(ProxyUrlBase, c.req),
                "API Key being used: " \o Substring(c.key, 0, LoggedPrefixLen) \o "..."}
          ELSE {})
    \cup (IF c.op = "validate" /\ c.pc = "done" THEN ValidateOutcomeLogs(c.result)
          ELSE {})

NewCall(origin, op) == [IdleCall EXCEPT !.origin = origin, !.op = op]

\* getNotableObservations(regionCode, opts) up to the await of fetch()
NotableRequest(key, c, regionCode, opts) ==
    MakeRequest(key, c, NotableEndpoint(regionCode), NotableParams(opts))

\* validateApiKey() up to the await of fetch()
ValidateRequest(key, c) == MakeRequest(key, c, ValidateEndpoint, <<>>)

\* Sent for a client that repeats a request it has sent
SentWithRetry(c) == IF c.pc = "toProxy" THEN 2 ELSE 0

\* one more fetch() to the proxy when the request got as far as sending
Sent(c) == IF c.pc = "toProxy" THEN 1 ELSE 0

---------------------------------------------------------------------------
(* Operations of the client, called directly *)

\* SetApiKey checking the new key with a request of its own
SetApiKeyProbing(k) ==
    /\ apiKey' = k
    /\ netCalls' = netCalls + 1
    /\ UNCHANGED <<calls, upstreamCalls, console, pageVars, mapVars, options, runtime>>

\* ebirdApi.setApiKey(k)
SetApiKey(k) ==
    /\ apiKey' = k
    /\ UNCHANGED <<calls, netCalls, upstreamCalls, console, pageVars, mapVars, options, runtime>>

\* ebirdApi.getNotableObservations(regionCode, opts) up to its first await
StartGet(regionCode, opts) ==
    /\ HasFree(calls)
    /\ LET c == NotableRequest(apiKey, NewCall("direct", "get"), regionCode, opts)
       IN  /\ calls' = [calls EXCEPT ![FreeId(calls)] = c]
           /\ netCalls' = netCalls + Sent(c)
           /\ console' = console \cup RequestLogs(apiKey, c)
    /\ UNCHANGED <<apiKey, upstreamCalls, pageVars, mapVars, options, runtime>>

GetNotableObservations == \E r \in {"US-NY"}, o \in DirectOptions : StartGet(r, o)

\* ebirdApi.validateApiKey() up to its first await
ValidateKey ==
    /\ HasFree(calls)
    /\ LET c == ValidateRequest(apiKey, NewCall("direct", "validate"))
       IN  /\ calls' = [calls EXCEPT ![FreeId(calls)] = c]
           /\ netCalls' = netCalls + Sent(c)
           /\ console' = console \cup RequestLogs(apiKey, c)
    /\ UNCHANGED <<apiKey, upstreamCalls, pageVars, mapVars, options, runtime>>

---------------------------------------------------------------------------
(* The page (HomePage) and the map (BirdMap) *)

\* the client-side state a handler reads and writes while it runs
World == [apiKey |-> apiKey, calls |-> calls, netCalls |-> netCalls,
          console |-> console]

Logged(w, lines) == [w EXCEPT !.console = @ \cup lines]

Commit(w) ==
    /\ apiKey' = w.apiKey
    /\ calls' = w.calls
    /\ netCalls' = w.netCalls
    /\ console' = w.console

\* handleApiKeyChange after its await import(): ebirdApi.setApiKey(apiKey),
\* then validateApiKey() up to the await of fetch(), for the waiting call i
SendProbe(w, i) ==
    LET k == w.calls[i].keyArg
        c == ValidateRequest(k, w.calls[i])
    IN  [apiKey   |-> k,
         calls    |-> [w.calls EXCEPT ![i] = c],
         netCalls |-> w.netCalls + Sent(c),
         console  |-> w.console \cup {"API client imported successfully",
                                      "API key set, now validating..."}
                               \cup RequestLogs(k, c)]

\* fetchSightings after its await import(): ebirdApi.setApiKey(apiKey), then
\* getNotableObservations(filters.regionCode, filters) up to the await of
\* fetch(), for the waiting call i; apiKey and filters are those of the
\* effect's closure, and apiKey is truthy past the effect's guard
StartFetch(w, i) ==
    LET k  == w.calls[i].keyArg
        cf == w.calls[i].filters
        c  == NotableRequest(k, w.calls[i], cf.regionCode, cf)
    IN  [apiKey   |-> k,
         calls    |-> [w.calls EXCEPT ![i] = c],
         netCalls |-> w.netCalls + Sent(c),
         console  |-> w.console \cup RequestLogs(k, c)]

\* the continuations that wait for the module, resumed in the order they
\* began to wait
RECURSIVE ResumeImports(_, _)
ResumeImports(w, i) ==
    IF i \notin DOMAIN w.calls THEN w
    ELSE ResumeImports(IF w.calls[i].pc # "import" THEN w
                       ELSE IF w.calls[i].origin = "map" THEN StartFetch(w, i)
                       ELSE SendProbe(w, i),
                       i + 1)

\* the apiKey prop HomePage passes to BirdMap
ApiKeyProp(aks) == IF aks.isValid THEN aks.apiKey ELSE Undefined

\* what BirdMap's fetch effect closes over: the props of the render of
\* HomePage it belongs to
Closure(aks, cf, sf) ==
    [apiKey |-> ApiKeyProp(aks), filters |-> cf, shouldFetchData |-> sf]

\* fetchSightings goes on when it has filters, an apiKey and shouldFetchData
EffectFetches(cl) == Truthy(cl.apiKey) /\ cl.shouldFetchData

\* no effect left to run; an effect whose guard fails returns at once and
\* counts as none
NoEffect == Closure([apiKey |-> "", isValid |-> FALSE], DEFAULT_FILTERS, FALSE)

\* the effect a render of HomePage leaves to run
Scheduled(cl) == IF EffectFetches(cl) THEN cl ELSE NoEffect

\* fetchSightings from its guard to its await import(): the call waits for
\* the module with the apiKey and the filters of the closure
BeginFetch(w, cl) ==
    [w EXCEPT !.calls[FreeId(w.calls)] =
                  [NewCall("map", "get") EXCEPT !.pc = "import",
                                                !.keyArg = cl.apiKey,
                                                !.filters = cl.filters]]

\* BirdMap's fetch effects run in the order of their renders
RECURSIVE RunEffects(_, _)
RunEffects(w, cls) ==
    IF cls = <<>> THEN w
    ELSE RunEffects(IF EffectFetches(Head(cls)) THEN BeginFetch(w, Head(cls)) ELSE w,
                    Tail(cls))

Fetching(cls) == {n \in DOMAIN cls : EffectFetches(cls[n])}

FreeSlots(cs) == Cardinality({i \in DOMAIN cs : cs[i].pc = "idle"})

\* the fetch effects cls run: each that passes its guard begins a fetch,
\* sets loading and clears error; ld and er are the map's loading and error
\* otherwise
Effects(w, cls, ld, er) ==
    /\ Cardinality(Fetching(cls)) <= FreeSlots(w.calls)
    /\ Commit(RunEffects(w, cls))
    /\ loading' = IF Fetching(cls) # {} THEN TRUE ELSE ld
    /\ error' = IF Fetching(cls) # {} THEN Null ELSE er

\* the panel BirdMap's render returns for the props and the state it is
\* given: the first that applies
Panel(aks, sf, ld, er) ==
    IF ~Truthy(ApiKeyProp(aks)) THEN "API Key Required"
    ELSE IF ~sf THEN "Ready to Search"
    ELSE IF ld THEN "Loading"
    ELSE IF Truthy(er) THEN "Error"
    ELSE "Map"

\* the render puts the error panel, with its 'Try Again' button, on the screen
TryAgainShown(aks, sf, ld, er) == Panel(aks, sf, ld, er) = "Error"

\* the page as its first render leaves it
FirstRender ==
    [aksFresh  |-> FALSE,     \* setApiKeyState was called since the last render
     mapLoaded |-> FALSE,     \* mapLoaded as last rendered
     effect    |-> NoEffect,  \* the fetch effect the last commit left to run
     tryAgain  |-> FALSE,     \* the error panel is what the DOM shows
     reloading |-> FALSE]     \* window.location.reload() was called

\* React has rendered everything the setters hold, mapLoaded being ml, and
\* BirdMap's fetch effect has run; ta tells whether the DOM shows the error
\* panel
UpToDate(ml, ta) ==
    [shown EXCEPT !.aksFresh = FALSE, !.mapLoaded = ml, !.effect = NoEffect,
                  !.tryAgain = ta]

\* React has a render of HomePage to do: setApiKeyState was given a new
\* object, or mapLoaded is no longer the value last rendered.  The other
\* state of HomePage is set in event handlers only, whose updates React
\* renders before the handler's task ends
RenderPending == shown.aksFresh \/ shown.mapLoaded # mapLoaded

\* React has a render of BirdMap to do: its setters (setLoading, setError),
\* called in an effect or in the continuation of an await, hold a state
\* whose panel is not the one on the screen.  Only the error panel has a
\* control of BirdMap's own, so only a render that brings or removes it is
\* followed
MapRenderPending ==
    shown.tryAgain # TryAgainShown(apiKeyState, shouldFetchData, loading, error)

\* loading and error once the fetch effect cl has run
LoadingAfter(cl) == IF EffectFetches(cl) THEN TRUE ELSE loading
ErrorAfter(cl) == IF EffectFetches(cl) THEN Null ELSE error

\* the error panel is on the screen once React has rendered the props aks
\* and sf, the fetch effect left to run having run before the render
ErrorPanelNext(aks, sf) ==
    TryAgainShown(aks, sf, LoadingAfter(shown.effect), ErrorAfter(shown.effect))

\* the render React does at the end of an event handler, with all updates
\* queued so far: the fetch effect a render left to run runs first; when
\* HomePage renders (rendered), BirdMap gets a new onMapLoaded and its fetch
\* effect runs, in the same task, with the props of this render.  What the
\* effect sets (loading, error) is rendered in a later task
Render(w, rendered, aks, cf, sf, ld, er) ==
    Effects(w, <<shown.effect>> \o (IF rendered THEN <<Closure(aks, cf, sf)>> ELSE <<>>),
            ld, er)

\* Header.handleApiKeySubmit -> handleApiKeyChange(k) up to its await of
\* validateApiKey() (or of import() while the module is not loaded yet)
SubmitApiKey(k) ==
    /\ HasFree(calls)
    /\ LET id == FreeId(calls)
           c0 == [NewCall("page", "validate") EXCEPT !.keyArg = k, !.pc = "import"]
           w0 == Logged([World EXCEPT !.calls[id] = c0],
                        {"API key changed: " \o Substring(k, 0, LoggedPrefixLen) \o "...",
                         "Setting API key and validating...",
                         "API key to validate: " \o k})
           w1 == IF moduleLoaded THEN SendProbe(w0, id) ELSE w0
           aks == [apiKey |-> k, isValid |-> FALSE, error |-> Undefined]
       IN  /\ apiKeyState' = aks
           /\ mapLoaded' = FALSE
           /\ shown' = UpToDate(FALSE, ErrorPanelNext(aks, shouldFetchData))
           /\ Render(w1, TRUE, aks, currentFilters, shouldFetchData, loading, error)
    /\ UNCHANGED <<upstreamCalls, currentFilters, pendingFilters, shouldFetchData,
                   sightings, refs, moduleLoaded, options, runtime>>

\* the import() of lib/ebird-api resolves for the first time
ModuleLoads ==
    /\ ~moduleLoaded
    /\ \E i \in CallIds : calls[i].pc = "import"
    /\ moduleLoaded' = TRUE
    /\ Commit(ResumeImports(World, 1))
    /\ UNCHANGED <<upstreamCalls, apiKeyState, currentFilters, pendingFilters,
                   shouldFetchData, mapLoaded, refs, shown, mapVars, options, runtime>>

\* the identity of an object created now: different from DEFAULT_FILTERS (0)
\* and from the current filters
FreshRef == CHOOSE n \in 1..2 : n # refs.current

\* EditFilters writing the edit into the applied filters as well
EditFiltersInPlace(key, value) ==
    /\ pendingFilters' = [f \in (DOMAIN pendingFilters) \cup {key} |->
                              IF f = key THEN value ELSE pendingFilters[f]]
    /\ currentFilters' = pendingFilters'
    /\ refs' = [refs EXCEPT !.pending = FreshRef]
    /\ shouldFetchData' = FALSE
    /\ shown' = UpToDate(mapLoaded, ErrorPanelNext(apiKeyState, FALSE))
    /\ Render(World, TRUE, apiKeyState, currentFilters, FALSE, loading, error)
    /\ UNCHANGED <<upstreamCalls, apiKeyState, mapLoaded, sightings,
                   moduleLoaded, options, runtime>>

\* FilterPanel.handleFilterChange(key, value) -> handleFiltersChange
EditFilters(key, value) ==
    /\ pendingFilters' = [f \in (DOMAIN pendingFilters) \cup {key} |->
                              IF f = key THEN value ELSE pendingFilters[f]]
    /\ refs' = [refs EXCEPT !.pending = FreshRef]
    /\ shouldFetchData' = FALSE
    /\ shown' = UpToDate(mapLoaded, ErrorPanelNext(apiKeyState, FALSE))
    /\ Render(World, TRUE, apiKeyState, currentFilters, FALSE, loading, error)
    /\ UNCHANGED <<upstreamCalls, apiKeyState, currentFilters, mapLoaded, sightings,
                   moduleLoaded, options, runtime>>

\* handleApplyFilters
ApplyFilters ==
    /\ currentFilters' = pendingFilters
    /\ refs' = [refs EXCEPT !.current = refs.pending]
    /\ shouldFetchData' = TRUE
    /\ mapLoaded' = FALSE
    /\ shown' = UpToDate(FALSE, ErrorPanelNext(apiKeyState, TRUE))
    /\ Render(World, refs.current # refs.pending \/ ~shouldFetchData
                     \/ shown.mapLoaded \/ shown.aksFresh,
              apiKeyState, pendingFilters, TRUE, loading, error)
    /\ UNCHANGED <<upstreamCalls, apiKeyState, pendingFilters, sightings,
                   moduleLoaded, options, runtime>>

\* handleResetFilters
ResetFilters ==
    /\ pendingFilters' = DEFAULT_FILTERS
    /\ currentFilters' = DEFAULT_FILTERS
    /\ refs' = [current |-> 0, pending |-> 0]
    /\ shouldFetchData' = TRUE
    /\ mapLoaded' = FALSE
    /\ shown' = UpToDate(FALSE, ErrorPanelNext(apiKeyState, TRUE))
    /\ Render(World, refs.current # 0 \/ refs.pending # 0 \/ ~shouldFetchData
                     \/ shown.mapLoaded \/ shown.aksFresh,
              apiKeyState, DEFAULT_FILTERS, TRUE, loading, error)
    /\ UNCHANGED <<upstreamCalls, apiKeyState, sightings, moduleLoaded, options, runtime>>

\* PageContinue storing the client's present key in place of the key that
\* was validated
PageContinueCurrentKey(c, w) ==
    LET v   == c.validation
        aks == IF v.threw
               THEN [apiKey |-> w.apiKey, isValid |-> FALSE, error |-> c.result.message]
               ELSE [apiKey |-> w.apiKey, isValid |-> v.value,
                     error |-> IF v.value THEN Undefined ELSE "Invalid API key"]
        w1  == Logged(w, IF v.threw THEN {"API key validation error: " \o ErrorText(c.result)}
                         ELSE {"API key validation result: " \o BooleanToString(v.value)})
    IN  /\ apiKeyState' = aks
        /\ shown' = [shown EXCEPT !.aksFresh = TRUE]
        /\ Commit(w1)
        /\ UNCHANGED <<currentFilters, pendingFilters, shouldFetchData, mapLoaded,
                       mapVars, refs, moduleLoaded>>

\* handleApiKeyChange from the return of validateApiKey() to its end
PageContinue(c, w) ==
    LET v   == c.validation
        aks == IF v.threw
               THEN [apiKey |-> c.keyArg, isValid |-> FALSE, error |-> c.result.message]
               ELSE [apiKey |-> c.keyArg, isValid |-> v.value,
                     error |-> IF v.value THEN Undefined ELSE "Invalid API key"]
        w1  == Logged(w, IF v.threw THEN {"API key validation error: " \o ErrorText(c.result)}
                         ELSE {"API key validation result: " \o BooleanToString(v.value)})
    IN  /\ apiKeyState' = aks
        /\ shown' = [shown EXCEPT !.aksFresh = TRUE]
        /\ Commit(w1)
        /\ UNCHANGED <<currentFilters, pendingFilters, shouldFetchData, mapLoaded,
                       mapVars, refs, moduleLoaded>>

\* fetchSightings from the settling of getNotableObservations to its end:
\* setSightings and onMapLoaded (HomePage's setMapLoaded(true)) on success,
\* setError on failure, and setLoading(false) in either case
MapContinue(c, w, outcome) ==
    IF outcome.threw
    THEN /\ Commit(Logged(w, {"Error fetching sightings: " \o ErrorText(outcome)}))
         /\ error' = outcome.message
         /\ loading' = FALSE
         /\ UNCHANGED <<pageVars, sightings>>
    ELSE /\ sightings' = outcome.data
         /\ mapLoaded' = TRUE
         /\ Commit(w)
         /\ loading' = FALSE
         /\ UNCHANGED <<apiKeyState, currentFilters, pendingFilters, shouldFetchData,
                        refs, shown, moduleLoaded, error>>

\* React's task after setters were called outside an event handler (in an
\* effect or in the continuation of an await): a fetch effect still left to
\* run runs first, then the components whose setters were called render
\* with all that the setters hold and React commits.  When HomePage is among
\* them, BirdMap gets a new onMapLoaded, and its fetch effect, closed over
\* the props of this render, is left to run in a later task
ReactRenders ==
    /\ RenderPending \/ MapRenderPending
    /\ shown' = [UpToDate(mapLoaded,
                          ErrorPanelNext(apiKeyState, shouldFetchData))
                    EXCEPT !.effect = IF RenderPending
                                      THEN Scheduled(Closure(apiKeyState, currentFilters,
                                                             shouldFetchData))
                                      ELSE NoEffect]
    /\ Effects(World, <<shown.effect>>, loading, error)
    /\ UNCHANGED <<upstreamCalls, apiKeyState, currentFilters, pendingFilters,
                   shouldFetchData, mapLoaded, sightings, refs, moduleLoaded, options, runtime>>

\* React's task for the passive effects of its last commit: BirdMap's fetch
\* effect calls fetchSightings, which runs to its await import()
ReactRunsEffect ==
    /\ shown.effect # NoEffect
    /\ shown' = [shown EXCEPT !.effect = NoEffect]
    /\ Effects(World, <<shown.effect>>, loading, error)
    /\ UNCHANGED <<upstreamCalls, apiKeyState, currentFilters, pendingFilters,
                   shouldFetchData, mapLoaded, sightings, refs, moduleLoaded, options, runtime>>

\* the import() inside fetchSightings resolves, the module being loaded:
\* the fetch that has waited longest goes on to send its request
MapImportResolves ==
    /\ moduleLoaded
    /\ \E i \in CallIds :
          /\ calls[i].pc = "import" /\ calls[i].origin = "map"
          /\ \A j \in CallIds : (calls[j].pc = "import" /\ calls[j].origin = "map") => i <= j
          /\ Commit(StartFetch(World, i))
    /\ UNCHANGED <<upstreamCalls, pageVars, mapVars, options, runtime>>

\* a click on the 'Try Again' button of the error panel, which is on the
\* screen as long as the error panel is what React committed last:
\* window.location.reload() starts the navigation and returns; the document
\* runs on until the navigation commits
TryAgain ==
    /\ shown.tryAgain
    /\ ~shown.reloading
    /\ shown' = [shown EXCEPT !.reloading = TRUE]
    /\ UNCHANGED <<clientVars, apiKeyState, currentFilters, pendingFilters,
                   shouldFetchData, mapLoaded, refs, moduleLoaded, mapVars, options, runtime>>

\* what becomes of a call when its document goes away: a request under way
\* is dropped and its continuation never runs
Unloaded(c) == IF c.pc \in {"idle", "done"} THEN c ELSE [c EXCEPT !.pc = "dropped"]

\* the navigation of window.location.reload() commits: the page and the
\* client start again from their initial state, the module has to be
\* imported again, and the requests still under way are dropped
Reload ==
    /\ shown.reloading
    /\ calls' = [i \in CallIds |-> Unloaded(calls[i])]
    /\ apiKey' = Undefined
    /\ apiKeyState' = [apiKey |-> "", isValid |-> FALSE, error |-> Undefined]
    /\ currentFilters' = DEFAULT_FILTERS
    /\ pendingFilters' = DEFAULT_FILTERS
    /\ shouldFetchData' = FALSE
    /\ mapLoaded' = FALSE
    /\ sightings' = JArray(<<>>)
    /\ loading' = FALSE
    /\ error' = Null
    /\ refs' = [current |-> 0, pending |-> 0]
    /\ shown' = FirstRender
    /\ moduleLoaded' = FALSE
    /\ UNCHANGED <<netCalls, upstreamCalls, console, options, runtime>>

---------------------------------------------------------------------------
(* The network and the proxy *)

\* the clock of the server that writes a response, as its date header
\* gives it
DateHeader == "<date>"

\* response.headers.entries() of the proxy's response in the browser, in
\* the order of the names: the content-type NextResponse.json sets and the
\* headers the HTTP server adds when it writes the response
ResponseHeaders(resp) ==
    << <<"connection", "keep-alive">>,
       <<"content-type", resp.contentType>>,
       <<"date", DateHeader>>,
       <<"keep-alive", "timeout=5">>,
       <<"transfer-encoding", "chunked">> >>

\* JSON.stringify of an object whose values are strings, given as its entries
RECURSIVE StringifyEntries(_)
StringifyEntries(es) ==
    IF es = <<>> THEN ""
    ELSE "\"" \o Head(es)[1] \o "\":\"" \o Head(es)[2] \o "\""
         \o (IF Len(es) > 1 THEN "," ELSE "")
         \o StringifyEntries(Tail(es))

\* makeRequest, the two console.log once fetch() resolved
ResponseLogs(resp) ==
    {"Response status: " \o NumberToString(resp.status),
     "Response headers: {" \o StringifyEntries(ResponseHeaders(resp)) \o "}"}

\* makeRequest, the console output once the body was read or the fetch or
\* the read rejected
OutcomeLogs(c, outcome) ==
    (IF ~c.netFailed /\ ~c.bodyFailed /\ ~IsOk(c.resp.status)
     THEN {"API Error Response: " \o NumberToString(c.resp.status) \o " "
               \o BodyText(c.resp.body)} ELSE {})
    \cup (IF outcome.threw THEN {"Fetch error: " \o ErrorText(outcome)}
          ELSE {"API Response data length: "
                    \o (IF IsArray(outcome.data)
                        THEN NumberToString(Len(outcome.data.items))
                        ELSE "not an array"),
                "API Response data sample: "
                    \o (IF IsArray(outcome.data) /\ Len(outcome.data.items) > 0
                        THEN StringifyItems(<<Head(outcome.data.items)>>)
                        ELSE JsonStringify(outcome.data))})

\* what the awaiting caller does once makeRequest / validateApiKey settled;
\* cs is the call table with call i finished
Continue(i, cs, outcome) ==
    LET w == Logged([World EXCEPT !.calls = cs],
                    OutcomeLogs(cs[i], outcome)
                    \cup (IF cs[i].op = "validate" THEN ValidateOutcomeLogs(outcome)
                          ELSE {}))
    IN  CASE cs[i].origin = "page" -> PageContinue(cs[i], w)
          [] cs[i].origin = "map"  -> MapContinue(cs[i], w, outcome)
          [] OTHER                 -> Commit(w) /\ UNCHANGED <<pageVars, mapVars>>

\* GET of the proxy route up to its await of fetch()
ProxyHandle(i) ==
    /\ calls[i].pc = "toProxy"
    /\ IF ProxyRejects(calls[i].req)
       THEN /\ calls' = [calls EXCEPT ![i].pc = "toClient",
                                      ![i].resp = ProxyRejection(calls[i].req)]
            /\ UNCHANGED upstreamCalls
       ELSE /\ calls' = [calls EXCEPT ![i].pc = "toUpstream",
                                      ![i].up = UpstreamRequest(calls[i].req)]
            /\ upstreamCalls' = upstreamCalls + 1
    /\ UNCHANGED <<apiKey, netCalls, console, pageVars, mapVars, options, runtime>>

\* the upstream answers: the proxy's fetch resolves with the response r
\* (status and headers), and GET goes on to its await of the body
UpstreamResponds(i, r) ==
    /\ calls[i].pc = "toUpstream"
    /\ calls' = [calls EXCEPT ![i].pc = "upBody", ![i].upResp = r]
    /\ UNCHANGED <<apiKey, netCalls, upstreamCalls, console, pageVars, mapVars, options, runtime>>

\* the upstream's body has arrived: response.text() / response.json()
\* settle and GET runs to its return
UpstreamBodyArrives(i) ==
    /\ calls[i].pc = "upBody"
    /\ calls' = [calls EXCEPT ![i].pc = "toClient",
                              ![i].resp = ProxyOnUpstreamResponse(calls[i].upResp)]
    /\ UNCHANGED <<apiKey, netCalls, upstreamCalls, console, pageVars, mapVars, options, runtime>>

\* the upstream's body breaks off: response.text() / response.json() reject
\* and GET runs its catch block
UpstreamBodyFails(i) ==
    /\ calls[i].pc = "upBody"
    /\ calls' = [calls EXCEPT ![i].pc = "toClient", ![i].upBodyFailed = TRUE,
                              ![i].resp = ProxyCatch]
    /\ UNCHANGED <<apiKey, netCalls, upstreamCalls, console, pageVars, mapVars, options, runtime>>

\* the proxy's fetch rejects (connection refused, DNS failure); GET runs
\* its catch block
UpstreamUnreachable(i) ==
    /\ calls[i].pc = "toUpstream"
    /\ calls' = [calls EXCEPT ![i].pc = "toClient", ![i].upFailed = TRUE,
                              ![i].resp = ProxyCatch]
    /\ UNCHANGED <<apiKey, netCalls, upstreamCalls, console, pageVars, mapVars, options, runtime>>

\* the proxy's response reaches the browser: fetch() resolves, makeRequest
\* logs status and headers and goes on to its await of the body
ClientReceives(i) ==
    /\ calls[i].pc = "toClient"
    /\ calls' = [calls EXCEPT ![i].pc = "body"]
    /\ console' = console \cup ResponseLogs(calls[i].resp)
    /\ UNCHANGED <<apiKey, netCalls, upstreamCalls, pageVars, mapVars, options, runtime>>

\* the body has arrived: response.text() / response.json() settle,
\* makeRequest runs to its end and the awaiting caller continues
ClientBodyArrives(i) ==
    /\ calls[i].pc = "body"
    /\ LET outcome == MakeRequestOnResponse(calls[i].resp)
       IN  Continue(i, [calls EXCEPT ![i] = Finished(calls[i], outcome)], outcome)
    /\ UNCHANGED <<upstreamCalls, options, runtime>>

\* the body breaks off: response.text() / response.json() reject and
\* makeRequest rethrows
ClientBodyFails(i) ==
    /\ calls[i].pc = "body"
    /\ LET failed == [calls[i] EXCEPT !.bodyFailed = TRUE]
           outcome == MakeRequestOnReject(BodyRejection)
       IN  Continue(i, [calls EXCEPT ![i] = Finished(failed, outcome)], outcome)
    /\ UNCHANGED <<upstreamCalls, options, runtime>>

\* the browser's fetch to the proxy rejects, at any moment before the
\* response's headers have arrived (the proxy may have taken the request and
\* called the upstream by then); makeRequest rethrows
FetchRejects(i) ==
    /\ calls[i].pc \in {"toProxy", "toUpstream", "upBody", "toClient"}
    /\ LET failed == [calls[i] EXCEPT !.netFailed = TRUE]
           outcome == MakeRequestOnReject(FetchRejection)
       IN  Continue(i, [calls EXCEPT ![i] = Finished(failed, outcome)], outcome)
    /\ UNCHANGED <<upstreamCalls, options, runtime>>

\* the browser aborts a request of the document that is being reloaded,
\* before the document has gone: its fetch() or the read of its body
\* rejects and makeRequest's catch block runs
FetchAborted(i) ==
    /\ shown.reloading
    /\ FetchRejects(i) \/ ClientBodyFails(i)

\* the two legs of the network once the upstream's answer is chosen: on
\* either leg the fetch may reject and the body may break off
Transport(i) ==
    \/ ProxyHandle(i)
    \/ UpstreamBodyArrives(i)
    \/ UpstreamBodyFails(i)
    \/ UpstreamUnreachable(i)
    \/ ClientReceives(i)
    \/ ClientBodyArrives(i)
    \/ ClientBodyFails(i)
    \/ FetchRejects(i)

\* the network between getNotableObservations, called directly, and the
\* upstream
Network ==
    \E i \in CallIds :
        \/ \E r \in DirectUpstreamResponses : UpstreamResponds(i, r)
        \/ Transport(i)

\* the answers of the upstream in the study of validateApiKey
ProbeStudyResponses(c) ==
    IF c.op = "validate" THEN DirectProbeResponses ELSE PlainUpstreamResponses

\* the network between a direct caller and the upstream in the study of
\* validateApiKey
ProbeNetwork ==
    \E i \in CallIds :
        \/ \E r \in ProbeStudyResponses(calls[i]) : UpstreamResponds(i, r)
        \/ Transport(i)

\* the network between a direct caller and an upstream that accepts
KeyNetwork ==
    \E i \in CallIds :
        \/ \E r \in PlainUpstreamResponses : UpstreamResponds(i, r)
        \/ Transport(i)

---------------------------------------------------------------------------
(* Specifications *)

InitClient ==
    /\ apiKey = Undefined
    /\ calls = [i \in 1..MaxCalls |-> IdleCall]
    /\ netCalls = 0
    /\ upstreamCalls = 0
    /\ console = {}
    /\ apiKeyState = [apiKey |-> "", isValid |-> FALSE, error |-> Undefined]
    /\ currentFilters = DEFAULT_FILTERS
    /\ pendingFilters = DEFAULT_FILTERS
    /\ shouldFetchData = FALSE
    /\ mapLoaded = FALSE
    /\ sightings = JArray(<<>>)
    /\ loading = FALSE
    /\ error = Null
    /\ refs = [current |-> 0, pending |-> 0]
    /\ shown = FirstRender
    /\ moduleLoaded = FALSE
    /\ options = EmptyOptions
    /\ runtime \in Runtimes

\* getNotableObservations used directly, as a test of lib/ebird-api would
\* use it, with one credential
NextClient ==
    \/ SetApiKey("abc123")
    \/ GetNotableObservations
    \/ Network

SpecClient == InitClient /\ [][NextClient]_vars

\* validateApiKey used directly, next to getNotableObservations, with one
\* credential
NextProbe ==
    \/ SetApiKey("abc123")
    \/ GetNotableObservations
    \/ ValidateKey
    \/ ProbeNetwork

SpecProbe == InitClient /\ [][NextProbe]_vars

\* the client used directly in a browser with two credentials that replace
\* each other
InitKeys == InitClient /\ runtime = "browser"

NextKeys ==
    \/ \E k \in Keys : SetApiKey(k)
    \/ GetNotableObservations
    \/ ValidateKey
    \/ KeyNetwork

SpecKeys == InitKeys /\ [][NextKeys]_vars

\* getNotableObservations alone, for every combination of present and
\* absent option fields
FullOptions ==
    [back : {1, 7, 30}, detail : {"simple", "full"}, hotspot : BOOLEAN,
     sppLocale : {"en", "fr"}, maxResults : {1, 10000}, r : {"", "L1,L2"}]

OptionFields == {"back", "detail", "hotspot", "sppLocale", "maxResults", "r"}

Restrict(o, D) == [f \in D |-> o[f]]

AllOptions == { Restrict(o, D) : o \in FullOptions, D \in SUBSET OptionFields }

InitQuery ==
    /\ apiKey = Undefined
    /\ calls = [i \in 1..MaxCalls |-> IdleCall]
    /\ netCalls = 0
    /\ upstreamCalls = 0
    /\ console = {}
    /\ apiKeyState = [apiKey |-> "", isValid |-> FALSE, error |-> Undefined]
    /\ currentFilters = DEFAULT_FILTERS
    /\ pendingFilters = DEFAULT_FILTERS
    /\ shouldFetchData = FALSE
    /\ mapLoaded = FALSE
    /\ sightings = JArray(<<>>)
    /\ loading = FALSE
    /\ error = Null
    /\ refs = [current |-> 0, pending |-> 0]
    /\ shown = FirstRender
    /\ moduleLoaded = FALSE
    /\ options \in AllOptions
    /\ runtime = "browser"

QueryGet == StartGet("US-NY", options)

NextQuery ==
    \/ SetApiKey("abc123")
    \/ QueryGet
    \/ \E i \in CallIds : ProxyHandle(i)

SpecQuery == InitQuery /\ [][NextQuery]_vars

\* the search params of requests sent to the proxy route by any HTTP caller:
\* endpoint or apiKey absent or empty, repeated and interleaved extra
\* params, and endpoints that carry a query string of their own
RawRequests ==
    { <<>>,
      << <<"apiKey", "abc123">> >>,
      << <<"endpoint", "">>, <<"apiKey", "abc123">> >>,
      << <<"endpoint", "/ref/hotspot/info/L1">> >>,
      << <<"endpoint", "/ref/hotspot/info/L1">>, <<"apiKey", "">> >>,
      << <<"back", "7">>, <<"endpoint", "/data/obs/US/recent/notable">>,
         <<"r", "L2">>, <<"apiKey", "abcdefgh12345">>, <<"r", "L1">>,
         <<"back", "7">> >>,
      << <<"endpoint", ValidateEndpoint>>, <<"apiKey", "abc123">>,
         <<"detail", "full">> >>,
      << <<"endpoint", "/data/obs/US/recent?apiKey=zzz&endpoint=/x">>,
         <<"apiKey", "abc123">> >> }

InitProxy ==
    /\ apiKey = Undefined
    /\ calls = [i \in 1..MaxProxyCalls |-> IdleCall]
    /\ netCalls = 0
    /\ upstreamCalls = 0
    /\ console = {}
    /\ apiKeyState = [apiKey |-> "", isValid |-> FALSE, error |-> Undefined]
    /\ currentFilters = DEFAULT_FILTERS
    /\ pendingFilters = DEFAULT_FILTERS
    /\ shouldFetchData = FALSE
    /\ mapLoaded = FALSE
    /\ sightings = JArray(<<>>)
    /\ loading = FALSE
    /\ error = Null
    /\ refs = [current |-> 0, pending |-> 0]
    /\ shown = FirstRender
    /\ moduleLoaded = FALSE
    /\ options = EmptyOptions
    /\ runtime = "node"

\* a request with search params ps arrives at the proxy route
RawRequest(ps) ==
    /\ HasFree(calls)
    /\ calls' = [calls EXCEPT ![FreeId(calls)] =
                     [NewCall("raw", "") EXCEPT !.pc = "toProxy", !.req = ps]]
    /\ UNCHANGED <<apiKey, netCalls, upstreamCalls, console, pageVars, mapVars, options, runtime>>

\* the proxy route on its own, between any caller and the upstream
NextProxy ==
    \/ \E ps \in RawRequests : RawRequest(ps)
    \/ \E i \in CallIds : ProxyHandle(i)
    \/ \E i \in CallIds, r \in RawUpstreamResponses : UpstreamResponds(i, r)
    \/ \E i \in CallIds : UpstreamBodyArrives(i)
    \/ \E i \in CallIds : UpstreamBodyFails(i)
    \/ \E i \in CallIds : UpstreamUnreachable(i)

SpecProxy == InitProxy /\ [][NextProxy]_vars

\* the application: the user acts on the header and the filter panel
Init ==
    /\ apiKey = Undefined
    /\ calls = [i \in 1..MaxUiCalls |-> IdleCall]
    /\ netCalls = 0
    /\ upstreamCalls = 0
    /\ console = {}
    /\ apiKeyState = [apiKey |-> "", isValid |-> FALSE, error |-> Undefined]
    /\ currentFilters = DEFAULT_FILTERS
    /\ pendingFilters = DEFAULT_FILTERS
    /\ shouldFetchData = FALSE
    /\ mapLoaded = FALSE
    /\ sightings = JArray(<<>>)
    /\ loading = FALSE
    /\ error = Null
    /\ refs = [current |-> 0, pending |-> 0]
    /\ shown = FirstRender
    /\ moduleLoaded = FALSE
    /\ options = EmptyOptions
    /\ runtime = "browser"

\* a browser that reaches the proxy and a proxy that reaches the upstream:
\* failures arrive as error statuses
UiResponses(c) ==
    IF c.op = "validate" THEN UiProbeResponses ELSE UiUpstreamResponses

Delivery ==
    \E i \in CallIds :
        \/ ProxyHandle(i)
        \/ \E r \in UiResponses(calls[i]) : UpstreamResponds(i, r)
        \/ UpstreamBodyArrives(i)
        \/ ClientReceives(i)
        \/ ClientBodyArrives(i)

\* the page with a user who submits one key after another and applies the
\* filters as they are
NextPage ==
    \/ \E k \in Keys : SubmitApiKey(k)
    \/ ModuleLoads
    \/ ApplyFilters
    \/ ReactRenders
    \/ ReactRunsEffect
    \/ MapImportResolves
    \/ TryAgain
    \/ \E i \in CallIds : FetchAborted(i)
    \/ Reload
    \/ Delivery

SpecPage == Init /\ [][NextPage]_vars

\* the application in the browser, with a user who has one key and works
\* on the filters
Next ==
    \/ SubmitApiKey("abcdefgh12345")
    \/ ModuleLoads
    \/ \E r \in Regions : EditFilters("regionCode", r)
    \/ ApplyFilters
    \/ ResetFilters
    \/ ReactRenders
    \/ ReactRunsEffect
    \/ MapImportResolves
    \/ TryAgain
    \/ \E i \in CallIds : FetchAborted(i)
    \/ Reload
    \/ Delivery

Spec == Init /\ [][Next]_vars

\* what the user may leave in the Max Results field: the value of an
\* <input type="number"> is a number's text or the empty text
MaxResultsTexts == {"", "50", "20000"}

\* the Max Results field's onChange: parseInt of a non-empty text, undefined
\* for the empty text (a field holding undefined reads as an absent field),
\* then handleFilterChange('maxResults', value) -> handleFiltersChange
EditMaxResults(text) ==
    /\ pendingFilters' =
           IF text # ""
           THEN [f \in (DOMAIN pendingFilters) \cup {"maxResults"} |->
                     IF f = "maxResults" THEN ParseInt(text) ELSE pendingFilters[f]]
           ELSE [f \in (DOMAIN pendingFilters) \ {"maxResults"} |-> pendingFilters[f]]
    /\ refs' = [refs EXCEPT !.pending = FreshRef]
    /\ shouldFetchData' = FALSE
    /\ shown' = UpToDate(mapLoaded, ErrorPanelNext(apiKeyState, FALSE))
    /\ Render(World, TRUE, apiKeyState, currentFilters, FALSE, loading, error)
    /\ UNCHANGED <<upstreamCalls, apiKeyState, currentFilters, mapLoaded, sightings,
                   moduleLoaded, options, runtime>>

\* the application with a user who submits one key and works on the Max
\* Results field of the filter panel
NextPanel ==
    \/ SubmitApiKey("abc123")
    \/ ModuleLoads
    \/ \E t \in MaxResultsTexts : EditMaxResults(t)
    \/ ApplyFilters
    \/ ReactRenders
    \/ ReactRunsEffect
    \/ MapImportResolves
    \/ TryAgain
    \/ \E i \in CallIds : FetchAborted(i)
    \/ Reload
    \/ Delivery

SpecPanel == Init /\ [][NextPanel]_vars

---------------------------------------------------------------------------
(* Reading outcomes: the error taxonomy of the specification *)

StartsWith(s, prefix) ==
    Len(s) >= Len(prefix) /\ SubSeq(s, 1, Len(prefix)) = prefix

\* the class a consumer can read off an outcome of makeRequest
ErrorClass(o) ==
    IF ~o.threw THEN "Success"
    ELSE IF o.name = "TypeError" THEN "TransportFailure"
    ELSE IF o.name # "Error" THEN "Other"
    ELSE IF StartsWith(o.message, "API key is required") THEN "MissingCredential"
    ELSE IF StartsWith(o.message, "Invalid API key") THEN "InvalidCredential"
    ELSE IF StartsWith(o.message, "Rate limit exceeded") THEN "RateLimited"
    ELSE IF StartsWith(o.message, "Access forbidden") THEN "Forbidden"
    ELSE IF StartsWith(o.message, "eBird API error: ") THEN "UpstreamError"
    ELSE "Other"

\* the class the specification assigns to a non-2xx status
StatusClass(status) ==
    CASE status = 401 -> "InvalidCredential"
      [] status = 429 -> "RateLimited"
      [] status = 403 -> "Forbidden"
      [] OTHER        -> "UpstreamError"

Done(c) == c.pc = "done"

\* makeRequest got an HTTP response from the proxy
Responded(c) == Done(c) /\ c.key # "" /\ ~c.netFailed

\* makeRequest got an HTTP response from the proxy and read its body
ReadBody(c) == Responded(c) /\ ~c.bodyFailed

---------------------------------------------------------------------------
(* Properties *)

\* the outcome of call c is the class of its status, and an UpstreamError
\* carries the status and the detail text
ClassifiedByStatus(c) ==
    /\ ErrorClass(c.result) = StatusClass(c.resp.status)
    /\ (StatusClass(c.resp.status) = "UpstreamError" =>
            /\ Includes(c.result.message, NumberToString(c.resp.status))
            /\ Includes(c.result.message, BodyText(c.resp.body)))

\* C1 as stated: every non-2xx status the client receives is classified by
\* the status alone: 401 InvalidCredential, 429 RateLimited, 403 Forbidden,
\* any other UpstreamError whose message carries the status and the detail
\* text.
C1_StatusClassificationAsStated ==
    \A i \in CallIds :
        (Responded(calls[i]) /\ ~IsOk(calls[i].resp.status)) =>
            ClassifiedByStatus(calls[i])

\* C1 amended: every non-2xx response whose body the client has read is
\* classified by the status alone: 401 InvalidCredential, 429 RateLimited,
\* 403 Forbidden, any other UpstreamError whose message carries the status
\* and the detail text; a response whose body breaks off is a
\* TransportFailure whatever its status.
C1_StatusClassification ==
    \A i \in CallIds :
        /\ (Responded(calls[i]) /\ calls[i].bodyFailed) =>
               ErrorClass(calls[i].result) = "TransportFailure"
        /\ (ReadBody(calls[i]) /\ ~IsOk(calls[i].resp.status)) =>
               ClassifiedByStatus(calls[i])

C1_Witness ==
    /\ \E i \in CallIds : ReadBody(calls[i]) /\ calls[i].resp.status = 403
                          /\ ErrorClass(calls[i].result) = "Forbidden"
    /\ \E i \in CallIds : ReadBody(calls[i]) /\ calls[i].resp.status = 404
                          /\ ErrorClass(calls[i].result) = "UpstreamError"

\* C2: when the browser's fetch to the proxy rejects, the outcome is a
\* TransportFailure, different from the outcome of every call whose
\* response was read (the status-based outcomes) or that had no credential.
C2_TransportFailureDistinct ==
    \A i \in CallIds :
        (Done(calls[i]) /\ calls[i].netFailed) =>
            /\ ErrorClass(calls[i].result) = "TransportFailure"
            /\ \A j \in CallIds :
                  (Done(calls[j]) /\ ~calls[j].netFailed /\ ~calls[j].bodyFailed) =>
                      /\ calls[j].result # calls[i].result
                      /\ ErrorClass(calls[j].result) # "TransportFailure"

C2_Witness ==
    \E i, j \in CallIds :
        /\ Done(calls[i]) /\ calls[i].netFailed
        /\ Responded(calls[j]) /\ calls[j].resp.status = 500

\* C3: when the proxy cannot reach the upstream, the client reports a
\* TransportFailure and not an UpstreamError.
C3_ProxyTransportFailure ==
    \A i \in CallIds :
        (Done(calls[i]) /\ calls[i].upFailed) =>
            ErrorClass(calls[i].result) = "TransportFailure"

\* C4: while setApiKey has never been called, every operation fails at once
\* (getNotableObservations with MissingCredential, validateApiKey with false)
\* and no request has been sent to the proxy or the upstream.
C4_NoKeyNoNetwork ==
    apiKey = Undefined =>
        /\ netCalls = 0
        /\ upstreamCalls = 0
        /\ \A i \in CallIds :
              /\ calls[i].pc \in {"idle", "done"}
              /\ (Done(calls[i]) /\ calls[i].op = "get") =>
                     ErrorClass(calls[i].result) = "MissingCredential"
              /\ (Done(calls[i]) /\ calls[i].op = "validate") =>
                     calls[i].validation = [threw |-> FALSE, value |-> FALSE]

C4_Witness ==
    /\ apiKey = Undefined
    /\ \E i, j \in CallIds :
          /\ Done(calls[i]) /\ calls[i].op = "get"
          /\ Done(calls[j]) /\ calls[j].op = "validate"

\* a validation probe that failed: no credential, a transport failure
\* (of the fetch or of the read of the body), a non-2xx status or a body
\* that does not parse
ProbeFailed(c) ==
    \/ c.key = ""
    \/ c.netFailed
    \/ c.bodyFailed
    \/ ~IsOk(c.resp.status)
    \/ ~BodyParses(c.resp.body)
    \/ c.upFailed
    \/ (c.upResp # NoResponse /\ (~IsOk(c.upResp.status) \/ ~BodyParses(c.upResp.body)))

\* C5: validateApiKey never raises, and returns false for every failure of
\* its probe.
C5_ValidateNeverRaises ==
    \A i \in CallIds :
        (Done(calls[i]) /\ calls[i].op = "validate") =>
            /\ ~calls[i].validation.threw
            /\ ProbeFailed(calls[i]) => ~calls[i].validation.value

C5_Witness ==
    /\ \E i \in CallIds : Done(calls[i]) /\ calls[i].op = "validate"
                          /\ (calls[i].netFailed \/ calls[i].bodyFailed)
    /\ \E i \in CallIds : Done(calls[i]) /\ calls[i].op = "validate"
                          /\ calls[i].upResp = HttpResponse(200, TextBody("<html>"))

\* C6: validateApiKey returns true only when the probe got a 2xx whose body
\* is a sequence of records.
C6_ValidateOnlyOnSequence ==
    \A i \in CallIds :
        (Done(calls[i]) /\ calls[i].op = "validate" /\ calls[i].validation.value) =>
            /\ IsOk(calls[i].resp.status)
            /\ BodyParses(calls[i].resp.body)
            /\ IsArray(calls[i].resp.body.value)

\* a getNotableObservations request was built from the options under study
Built(c) == c.pc # "idle" /\ c.op = "get" /\ c.key # ""

\* the parameters other than maxResults and r parse back to the options,
\* with the documented default for every absent field
RoundTripsRequired(o, ps) ==
    /\ \A k \in {"back", "detail", "hotspot", "sppLocale"} :
          Len(SearchParamsGetAll(ps, k)) = 1
    /\ ~ParseIntIsNaN(SearchParamsGet(ps, "back"))
    /\ ParseInt(SearchParamsGet(ps, "back")) = (IF Has(o, "back") THEN o.back ELSE 14)
    /\ SearchParamsGet(ps, "detail") = (IF Has(o, "detail") THEN o.detail ELSE "full")
    /\ SearchParamsGet(ps, "hotspot") =
           (IF Has(o, "hotspot") /\ o.hotspot THEN "true" ELSE "false")
    /\ SearchParamsGet(ps, "sppLocale") =
           (IF Has(o, "sppLocale") THEN o.sppLocale ELSE "en")

\* the named optional parameter is there exactly when wanted, once, with
\* the value given
MaxResultsRoundTrips(o, ps) ==
    /\ Len(SearchParamsGetAll(ps, "maxResults")) = (IF Has(o, "maxResults") THEN 1 ELSE 0)
    /\ Has(o, "maxResults") =>
           /\ ~ParseIntIsNaN(SearchParamsGet(ps, "maxResults"))
           /\ ParseInt(SearchParamsGet(ps, "maxResults")) = o.maxResults

\* C7 as stated: the query parameters round-trip, and maxResults and r are
\* present exactly when the options supply them.
C7_RoundTripAsStated ==
    \A i \in CallIds :
        Built(calls[i]) =>
            /\ RoundTripsRequired(options, calls[i].req)
            /\ MaxResultsRoundTrips(options, calls[i].req)
            /\ Len(SearchParamsGetAll(calls[i].req, "r")) = (IF Has(options, "r") THEN 1 ELSE 0)
            /\ Has(options, "r") => SearchParamsGet(calls[i].req, "r") = options.r

\* C7 amended: the query parameters round-trip; maxResults is present
\* exactly when the options supply it, and r exactly when the options supply
\* a non-empty r (an empty r is sent as no parameter at all).
C7_RoundTrip ==
    \A i \in CallIds :
        Built(calls[i]) =>
            /\ RoundTripsRequired(options, calls[i].req)
            /\ MaxResultsRoundTrips(options, calls[i].req)
            /\ Len(SearchParamsGetAll(calls[i].req, "r")) =
                   (IF Has(options, "r") /\ options.r # "" THEN 1 ELSE 0)
            /\ (Has(options, "r") /\ options.r # "") =>
                   SearchParamsGet(calls[i].req, "r") = options.r

C7_Witness ==
    /\ options = [back |-> 7, hotspot |-> TRUE, maxResults |-> 10000, r |-> "L1,L2"]
    /\ \E i \in CallIds :
          /\ Built(calls[i])
          /\ CopyParams(calls[i].req) =
                 << <<"back", "7">>, <<"detail", "full">>, <<"hotspot", "true">>,
                    <<"sppLocale", "en">>, <<"maxResults", "10000">>, <<"r", "L1,L2">> >>

\* C8: a successful getNotableObservations returns exactly what the
\* upstream sent for that request: same records, same order, same length.
C8_PassThrough ==
    \A i \in CallIds :
        (Done(calls[i]) /\ calls[i].op = "get" /\ ~calls[i].result.threw) =>
            /\ IsOk(calls[i].upResp.status)
            /\ BodyParses(calls[i].upResp.body)
            /\ calls[i].result.data = calls[i].upResp.body.value

C8_Witness ==
    \E i \in CallIds :
        /\ Done(calls[i]) /\ calls[i].op = "get"
        /\ calls[i].upResp.body.value = JArray(<<S2, S1, S1>>)
        /\ calls[i].result = Returned(JArray(<<S2, S1, S1>>))

\* a fetch of sightings started by the map
MapFetch(c) == c.origin = "map" /\ c.op = "get"

\* C9: when fetch A (started first) completes after fetch B (started later,
\* with different applied criteria, already completed with a result) and no
\* fetch was started after B, the sightings the map holds are B's result.
C9_LaterFetchWins ==
    [][\A i, j \in CallIds :
          ( /\ i < j
            /\ MapFetch(calls[i]) /\ MapFetch(calls[j])
            /\ calls[i].filters # calls[j].filters
            /\ ~Done(calls[i]) /\ Done(calls'[i])
            /\ Done(calls[j]) /\ ~calls[j].result.threw
            /\ \A k \in CallIds : k > j => ~MapFetch(calls'[k]) )
          => sightings' = calls[j].result.data]_vars

\* C10: no line of console output contains a whole credential that is
\* longer than the logged prefix.
C10_NoCredentialInLogs ==
    \A line \in console :
        \A k \in Keys : Len(k) > LoggedPrefixLen => ~Includes(line, k)

\* the proxy has dealt with the request of call c
Handled(c) == c.pc \in {"toUpstream", "upBody", "toClient", "body", "done"}

\* the proxy has issued an upstream call for call c
Forwarded(c) == Handled(c) /\ c.up # NoUpstreamRequest

\* the query parameters the endpoint value carries in its own query string
EndpointQuery(ps) == ParseUrl(EBIRD_API_BASE \o SearchParamsGet(ps, "endpoint")).query

ReservedName(name) == name \in {"apiKey", "endpoint"}

\* C11 as stated: every upstream call carries the inbound apiKey in the
\* X-eBirdApiToken header, and its URL has no apiKey and no endpoint
\* query parameter.
C11_HeaderOnlyAsStated ==
    \A i \in CallIds :
        Forwarded(calls[i]) =>
            /\ calls[i].up.token = SearchParamsGet(calls[i].req, "apiKey")
            /\ ~SearchParamsHas(calls[i].up.query, "apiKey")
            /\ ~SearchParamsHas(calls[i].up.query, "endpoint")

\* C11 amended: every upstream call carries the inbound apiKey in the
\* X-eBirdApiToken header, and the only apiKey or endpoint query parameters
\* of its URL are those the endpoint value has in its own query string: the
\* proxy copies neither the inbound apiKey nor the inbound endpoint.
C11_HeaderOnly ==
    \A i \in CallIds :
        Forwarded(calls[i]) =>
            LET own == EndpointQuery(calls[i].req)
                q   == calls[i].up.query
            IN  /\ calls[i].up.token = SearchParamsGet(calls[i].req, "apiKey")
                /\ Len(q) >= Len(own)
                /\ SubSeq(q, 1, Len(own)) = own
                /\ \A n \in (Len(own) + 1)..Len(q) : ~ReservedName(q[n][1])

C11_Witness ==
    \E i \in CallIds :
        /\ Forwarded(calls[i])
        /\ SearchParamsGet(calls[i].req, "apiKey") = "abcdefgh12345"
        /\ calls[i].up.token = "abcdefgh12345"
        /\ calls[i].up.query = << <<"back", "7">>, <<"r", "L2">>, <<"r", "L1">>,
                                  <<"back", "7">> >>

\* C12: a request whose endpoint is missing or empty gets 400 "Endpoint
\* parameter is required", a request with an endpoint whose apiKey is
\* missing or empty gets 400 "API key is required", and neither causes an
\* upstream call: the upstream calls made are those of the accepted requests.
C12_RejectsBeforeNetwork ==
    /\ \A i \in CallIds :
          Handled(calls[i]) =>
              LET e == SearchParamsGet(calls[i].req, "endpoint")
                  k == SearchParamsGet(calls[i].req, "apiKey")
              IN  /\ (e \in {Null, ""}) =>
                        /\ calls[i].resp =
                               HttpResponse(400, ErrorBody("Endpoint parameter is required"))
                        /\ ~Forwarded(calls[i])
                  /\ (e \notin {Null, ""} /\ k \in {Null, ""}) =>
                        /\ calls[i].resp = HttpResponse(400, ErrorBody("API key is required"))
                        /\ ~Forwarded(calls[i])
    /\ upstreamCalls = Cardinality({i \in CallIds : Forwarded(calls[i])})

C12_Witness ==
    /\ upstreamCalls = 0
    /\ \E i, j \in CallIds :
          /\ calls[i].req = << <<"endpoint", "">>, <<"apiKey", "abc123">> >>
          /\ calls[i].resp.status = 400
          /\ calls[j].req = << <<"endpoint", "/ref/hotspot/info/L1">> >>
          /\ calls[j].resp.status = 400

\* the upstream has answered the proxy's call for call c, and the proxy
\* has answered its caller
Answered(c) ==
    Forwarded(c) /\ ~c.upFailed /\ c.upResp # NoResponse /\ c.resp # NoResponse

\* the proxy has read the whole of the upstream's answer
Relayed(c) == Answered(c) /\ ~c.upBodyFailed

\* the proxy's answer for call c has the upstream's status and a JSON
\* object whose error text contains the status number and the status text
\* and whose details are the upstream body text
ErrorRelayed(c) ==
    LET u == c.upResp
        p == c.resp
    IN  /\ p.status = u.status
        /\ p.body.kind = "json"
        /\ DOMAIN p.body.value.fields = {"error", "details"}
        /\ Includes(p.body.value.fields.error, NumberToString(u.status))
        /\ Includes(p.body.value.fields.error, u.statusText)
        /\ p.body.value.fields.details = BodyText(u.body)

\* C13 as stated: for every upstream response with a non-success status s
\* the proxy answers with status s and the normalized error payload.
C13_ErrorStatusRelayedAsStated ==
    \A i \in CallIds :
        (Answered(calls[i]) /\ ~IsOk(calls[i].upResp.status)) =>
            ErrorRelayed(calls[i])

\* C13 amended: for an upstream response with a non-success status s from
\* 300 to 599 other than 304, whose body the proxy has read, the proxy
\* answers with status s and a JSON object whose error text contains the
\* status number and the status text and whose details are the upstream body
\* text; when the body breaks off, or s is 304 or lies outside 200..599, the
\* proxy answers as for a transport failure.
C13_ErrorStatusRelayed ==
    \A i \in CallIds :
        /\ (Answered(calls[i]) /\ calls[i].upBodyFailed) =>
               calls[i].resp = ProxyCatch
        /\ (Relayed(calls[i]) /\ ~IsOk(calls[i].upResp.status)) =>
               IF calls[i].upResp.status \in (300..599) \ {304}
               THEN ErrorRelayed(calls[i])
               ELSE calls[i].resp = ProxyCatch

\* a 404 is relayed with the text of its body, and a 304 read in full is
\* answered with the generic 500
C13_Witness ==
    \E i, j \in CallIds :
        /\ Relayed(calls[i]) /\ calls[i].upResp.status = 404
        /\ calls[i].resp.status = 404
        /\ calls[i].resp.body.value.fields.details = "{\"error\":\"not found\"}"
        /\ Relayed(calls[j]) /\ calls[j].upResp.status = 304
        /\ calls[j].resp = ProxyCatch

\* C14: for an upstream response with a success status, read in full, the
\* proxy answers with the same status and the same body.
C14_SuccessRelayedVerbatim ==
    \A i \in CallIds :
        (Relayed(calls[i]) /\ IsOk(calls[i].upResp.status)) =>
            /\ calls[i].resp.status = calls[i].upResp.status
            /\ calls[i].resp.body = calls[i].upResp.body

\* C15: when the proxy's upstream call gets no response, the proxy answers
\* 500 with the payload {error: "Failed to fetch data from eBird API"}.
C15_TransportFailureIs500 ==
    \A i \in CallIds :
        (Forwarded(calls[i]) /\ calls[i].upFailed) =>
            /\ calls[i].pc = "toClient"
            /\ calls[i].resp =
                   HttpResponse(500, ErrorBody("Failed to fetch data from eBird API"))

C15_Witness ==
    \E i \in CallIds :
        /\ Forwarded(calls[i]) /\ calls[i].upFailed
        /\ calls[i].upResp = NoResponse
        /\ calls[i].resp.status = 500

\* the inbound parameters other than endpoint and apiKey, in their order
PassedParams(ps) == SelectSeq(ps, LAMBDA p : ~ReservedName(p[1]))

\* C16 as stated: the query parameters of the outbound URL are exactly the
\* inbound parameters other than endpoint and apiKey: same keys, values,
\* multiplicity and order.
C16_ParamsPassThroughAsStated ==
    \A i \in CallIds :
        Forwarded(calls[i]) => calls[i].up.query = PassedParams(calls[i].req)

\* C16 amended: the query parameters of the outbound URL are the parameters
\* of the endpoint value's own query string followed by exactly the inbound
\* parameters other than endpoint and apiKey: same keys, values,
\* multiplicity and order.
C16_ParamsPassThrough ==
    \A i \in CallIds :
        Forwarded(calls[i]) =>
            calls[i].up.query = EndpointQuery(calls[i].req) \o PassedParams(calls[i].req)

C16_Witness ==
    \E i, j \in CallIds :
        /\ Forwarded(calls[i])
        /\ calls[i].req = << <<"endpoint", ValidateEndpoint>>, <<"apiKey", "abc123">>,
                             <<"detail", "full">> >>
        /\ calls[i].up.query = << <<"back", "1">>, <<"maxResults", "1">>,
                                  <<"detail", "full">> >>
        /\ Forwarded(calls[j])
        /\ Len(SearchParamsGetAll(calls[j].req, "r")) = 2
        /\ SearchParamsGetAll(calls[j].up.query, "r") = <<"L2", "L1">>

\* makeRequest was invoked for call c with a credential set
InvokedWithKey(c) == c.pc # "idle" /\ c.key # ""

\* C17: the calls made to the proxy are one per invocation with a
\* credential set, and the upstream calls are one per request the proxy
\* accepted, whatever the outcomes and however often the same arguments
\* recur: nothing is retried and nothing is answered without a round trip.
C17_OneRoundTripPerCall ==
    /\ netCalls = Cardinality({i \in CallIds : InvokedWithKey(calls[i])})
    /\ upstreamCalls = Cardinality({i \in CallIds : Forwarded(calls[i])})
    /\ \A i \in CallIds :
          (InvokedWithKey(calls[i]) /\ Handled(calls[i]) /\ ~calls[i].netFailed)
              => Forwarded(calls[i])

C17_Witness ==
    /\ netCalls = 2
    /\ upstreamCalls = 2
    /\ \E i, j \in CallIds :
          /\ i # j
          /\ Done(calls[i]) /\ Done(calls[j])
          /\ calls[i].op = "validate" /\ calls[j].op = "validate"
          /\ calls[i].req = calls[j].req
          /\ calls[i].upResp.status = 401
          /\ calls[j].upFailed

\* the request of call c is on its way or waits for its answer
InFlight(c) == c.pc \in {"toProxy", "toUpstream", "upBody", "toClient", "body"}

\* a fetch of the map waits for the module, its request not yet built
Waiting(c) == MapFetch(c) /\ c.pc = "import"

\* the criteria of every fetch are fixed when it is initiated: the effect a
\* render leaves to run holds the criteria applied in that render; a fetch
\* that begins takes the criteria of the effect that begins it, left by an
\* earlier render or belonging to the render of this step; a fetch that has
\* begun keeps its criteria whatever is edited, applied or reset since, builds
\* its request from them, and the request it has sent stays as it was sent
FixedAtStart ==
    /\ (shown'.effect # shown.effect /\ EffectFetches(shown'.effect)) =>
            shown'.effect.filters = currentFilters'
    /\ \A i \in CallIds :
          /\ (calls[i].pc = "idle" /\ MapFetch(calls'[i])) =>
                 /\ Waiting(calls'[i])
                 /\ \/ calls'[i].filters = currentFilters'
                    \/ EffectFetches(shown.effect)
                           /\ calls'[i].filters = shown.effect.filters
          /\ calls[i].pc # "idle" => calls'[i].filters = calls[i].filters
          /\ (Waiting(calls[i]) /\ InFlight(calls'[i])) =>
                 SearchParamsGet(calls'[i].req, "endpoint") =
                     NotableEndpoint(calls[i].filters.regionCode)
          /\ (InFlight(calls[i]) \/ Done(calls[i])) => calls'[i].req = calls[i].req

\* the page is loaded anew: it starts again from the default criteria with
\* nothing applied, and no request of the page before is under way
PageReloaded ==
    /\ moduleLoaded /\ ~moduleLoaded'
    /\ currentFilters' = DEFAULT_FILTERS /\ pendingFilters' = DEFAULT_FILTERS
    /\ ~shouldFetchData'
    /\ \A i \in CallIds : ~Waiting(calls'[i]) /\ ~InFlight(calls'[i])

\* C18 as stated: the criteria of a fetch are fixed when it is initiated, and
\* the applied criteria change only in a step that applies the pending
\* criteria or resets to the defaults (a step that sets shouldFetchData).
C18_CriteriaFixedAtStartAsStated ==
    [][ /\ FixedAtStart
        /\ (currentFilters' # currentFilters) =>
              /\ shouldFetchData'
              /\ currentFilters' \in {pendingFilters, DEFAULT_FILTERS}
      ]_vars

\* C18 amended: the criteria of a fetch are fixed when it is initiated, and
\* the applied criteria change only in a step that applies the pending
\* criteria or resets to the defaults (a step that sets shouldFetchData),
\* never in a step that edits the pending criteria, or when the page is
\* reloaded from its error panel, which drops the requests under way.
C18_CriteriaFixedAtStart ==
    [][ /\ FixedAtStart
        /\ (currentFilters' # currentFilters) =>
              \/ /\ shouldFetchData'
                 /\ currentFilters' \in {pendingFilters, DEFAULT_FILTERS}
              \/ PageReloaded
      ]_vars

\* a fetch begun under the criteria "US" has sent its request for "US" while
\* "US-NY" is applied, a fetch begun under "US-NY" waits to build its
\* request, and the pending criteria have been edited since
C18_Witness ==
    \E i, j \in CallIds :
        /\ MapFetch(calls[i]) /\ InFlight(calls[i])
        /\ calls[i].filters.regionCode = "US"
        /\ SearchParamsGet(calls[i].req, "endpoint") = NotableEndpoint("US")
        /\ Waiting(calls[j])
        /\ calls[j].filters.regionCode = "US-NY"
        /\ currentFilters.regionCode = "US-NY"
        /\ ~shouldFetchData

\* C19: getNotableObservations returns a value to its caller only when the
\* body of the 2xx response is a sequence.
C19_SuccessOnlyForSequence ==
    \A i \in CallIds :
        (Done(calls[i]) /\ calls[i].op = "get" /\ ~calls[i].result.threw) =>
            IsArray(calls[i].result.data)

\* C20: a step that replaces the credential sends nothing, logs nothing and
\* touches no call; a request that is sent carries the credential that is
\* set at that moment as its apiKey; and a request already sent keeps the
\* credential it was sent with.
C20_SetCredential ==
    [][ /\ (apiKey' # apiKey) =>
              /\ calls' = calls
              /\ netCalls' = netCalls
              /\ upstreamCalls' = upstreamCalls
              /\ console' = console
        /\ \A i \in CallIds :
              (calls[i].pc = "idle" /\ InFlight(calls'[i])) =>
                  /\ apiKey' = apiKey
                  /\ calls'[i].key = apiKey
                  /\ SearchParamsGetAll(calls'[i].req, "apiKey") = <<apiKey>>
        /\ \A i \in CallIds :
              InFlight(calls[i]) =>
                  /\ calls'[i].key = calls[i].key
                  /\ SearchParamsGetAll(calls'[i].req, "apiKey") = <<calls[i].key>>
      ]_vars

C20_Witness ==
    /\ apiKey = "abcdefgh12345"
    /\ \E i, j \in CallIds :
          /\ InFlight(calls[i])
          /\ SearchParamsGet(calls[i].req, "apiKey") = "abc123"
          /\ InFlight(calls[j])
          /\ SearchParamsGet(calls[j].req, "apiKey") = "abcdefgh12345"

\* C21: the upstream call the proxy makes for a validation probe targets
\* /data/obs/US/recent/notable under the API base with exactly the query
\* parameters back=1 and maxResults=1, and carries the probed key in the
\* token header, as a call for getNotableObservations does.
C21_ProbeRequest ==
    \A i \in CallIds :
        (calls[i].op = "validate" /\ Forwarded(calls[i])) =>
            /\ calls[i].up.path = "https://api.ebird.org/v2/data/obs/US/recent/notable"
            /\ calls[i].up.query = << <<"back", "1">>, <<"maxResults", "1">> >>
            /\ calls[i].up.token = calls[i].key

C21_Witness ==
    \E i, j \in CallIds :
        /\ calls[i].op = "validate" /\ Forwarded(calls[i])
        /\ calls[i].up.query = << <<"back", "1">>, <<"maxResults", "1">> >>
        /\ calls[j].op = "get" /\ Forwarded(calls[j])
        /\ calls[j].up.path = "https://api.ebird.org/v2/data/obs/US-NY/recent/notable"

\* a validation started by the page
PageProbe(c) == c.origin = "page" /\ c.op = "validate"

\* no request starts in this step
StartsNoRequest == \A j \in CallIds : calls[j].pc = "idle" => calls'[j].pc = "idle"

\* React renders, after no user action, what the completion of a request of
\* the map has left to render: the mapLoaded its onMapLoaded notification set
NotificationRendered ==
    /\ ~shown.aksFresh
    /\ shown.mapLoaded # mapLoaded
    /\ shown'.mapLoaded = mapLoaded
    /\ UNCHANGED <<apiKeyState, currentFilters, pendingFilters, shouldFetchData,
                   mapLoaded, refs>>

\* C22: the completion of a request of the map, its onMapLoaded notification
\* and the render that follows it included, starts no further request: the
\* step of the completion begins none, and the render of the notification
\* leaves no fetch for the map's effect to begin.
C22_CompletionStartsNoRequest ==
    [][ /\ \A i \in CallIds :
              (MapFetch(calls[i]) /\ InFlight(calls[i]) /\ Done(calls'[i])) =>
                  StartsNoRequest
        /\ NotificationRendered => ~EffectFetches(shown'.effect) ]_vars

\* C23: when the validation of the key submitted first completes after the
\* validation of a different key submitted later, and no key was submitted
\* after that one, the page's apiKeyState is the outcome for the later key.
C23_LaterKeyWins ==
    [][\A i, j \in CallIds :
          ( /\ i < j
            /\ PageProbe(calls[i]) /\ PageProbe(calls[j])
            /\ calls[i].keyArg # calls[j].keyArg
            /\ ~Done(calls[i]) /\ Done(calls'[i])
            /\ Done(calls[j])
            /\ \A k \in CallIds : k > j => ~PageProbe(calls'[k]) )
          => /\ apiKeyState'.apiKey = calls[j].keyArg
             /\ apiKeyState'.isValid = calls[j].validation.value]_vars

\* C24: while a request the map has started is in flight, its loading
\* flag is true.
C24_LoadingWhileInFlight ==
    (\E i \in CallIds : MapFetch(calls[i]) /\ InFlight(calls[i])) => loading

\* C25: when fetch A (started first) fails after fetch B (started later,
\* already completed with a result) and no fetch was started after B, the
\* map's error is null and its sightings are B's.
C25_LateFailureIgnored ==
    [][\A i, j \in CallIds :
          ( /\ i < j
            /\ MapFetch(calls[i]) /\ MapFetch(calls[j])
            /\ InFlight(calls[i]) /\ Done(calls'[i]) /\ calls'[i].result.threw
            /\ Done(calls[j]) /\ ~calls[j].result.threw
            /\ \A k \in CallIds : k > j => ~MapFetch(calls'[k]) )
          => /\ error' = Null
             /\ sightings' = calls[j].result.data]_vars

\* a key is submitted in this step, or the module finishes loading and the
\* submissions that waited for it go on
SubmissionStep ==
    \/ \E j \in CallIds : calls[j].pc = "idle" /\ PageProbe(calls'[j])
    \/ ~moduleLoaded /\ moduleLoaded'

\* C26: the client's credential changes only in a step of the page's
\* handling of a submitted key, never when a fetch or a validation starts
\* or completes.
C26_CredentialWrittenByUserOnly ==
    [][(apiKey' # apiKey) => SubmissionStep]_vars

\* C27: when apiKeyState.isValid is true, a validation probe of the page
\* that was sent with exactly apiKeyState.apiKey, and reached the upstream
\* with it, has completed successfully.
C27_ValidOnlyByOwnProbe ==
    apiKeyState.isValid =>
        \E i \in CallIds :
            /\ PageProbe(calls[i]) /\ Done(calls[i])
            /\ calls[i].key = apiKeyState.apiKey
            /\ SearchParamsGet(calls[i].req, "apiKey") = apiKeyState.apiKey
            /\ calls[i].up.token = apiKeyState.apiKey
            /\ ~calls[i].result.threw
            /\ IsOk(calls[i].upResp.status)

\* the later key is valid by its own probe although the map, with the
\* earlier key in its closure, has overwritten the client's credential since
\* the later key was submitted
C27_Witness ==
    /\ apiKeyState.isValid
    /\ apiKeyState.apiKey = "abcdefgh12345"
    /\ apiKey = "abc123"
    /\ \E i, j \in CallIds :
          /\ PageProbe(calls[i]) /\ Done(calls[i]) /\ calls[i].key = "abc123"
          /\ PageProbe(calls[j]) /\ Done(calls[j]) /\ calls[j].key = "abcdefgh12345"
          /\ ~calls[j].result.threw

\* key is the key submitted last (in the state after the step)
SubmittedLast(key) ==
    \E j \in CallIds :
        /\ PageProbe(calls'[j])
        /\ \A k \in CallIds : k > j => ~PageProbe(calls'[k])
        /\ calls'[j].keyArg = key

\* C28: the map sends a request only in a state where apiKeyState.isValid
\* and shouldFetchData hold, with the key of apiKeyState, and that key is
\* the key submitted last: no request is sent with an earlier key after a
\* different key has been submitted and before that key is validated.
C28_FetchOnlyWhenValidated ==
    [][\A i \in CallIds :
          (~InFlight(calls[i]) /\ MapFetch(calls'[i]) /\ InFlight(calls'[i])) =>
              /\ apiKeyState'.isValid
              /\ shouldFetchData'
              /\ calls'[i].key = apiKeyState'.apiKey
              /\ SearchParamsGet(calls'[i].req, "apiKey") = apiKeyState'.apiKey
              /\ SubmittedLast(calls'[i].key)]_vars

\* C29: every request the client sends to the proxy has a non-empty
\* endpoint parameter and a non-empty apiKey parameter, and the proxy
\* answers none of them with one of its two 400 rejections.
C29_ClientRequestsWellFormed ==
    \A i \in CallIds :
        (InFlight(calls[i]) \/ (Done(calls[i]) /\ calls[i].key # "")) =>
            /\ SearchParamsGet(calls[i].req, "endpoint") \notin {Null, ""}
            /\ SearchParamsGet(calls[i].req, "apiKey") \notin {Null, ""}
            /\ (Handled(calls[i]) /\ ~calls[i].netFailed) =>
                   /\ calls[i].up # NoUpstreamRequest
                   /\ calls[i].resp.status # 400

C29_Witness ==
    \E i, j \in CallIds :
        /\ Done(calls[i]) /\ calls[i].op = "validate" /\ calls[i].key = ""
        /\ calls[i].req = <<>>
        /\ Done(calls[j]) /\ calls[j].op = "get" /\ calls[j].key = "abc123"
        /\ calls[j].resp.status = 200

\* C30: every getNotableObservations request started from the map after
\* edits of the Max Results field and Apply carries no maxResults parameter
\* or the decimal text of an integer from 1 to 10000.
C30_MaxResultsInRange ==
    \A i \in CallIds :
        (MapFetch(calls[i]) /\ (InFlight(calls[i]) \/ Done(calls[i]))) =>
            LET v == SearchParamsGet(calls[i].req, "maxResults")
            IN  \/ v = Null
                \/ /\ ~ParseIntIsNaN(v)
                   /\ NumberToString(ParseInt(v)) = v
                   /\ ParseInt(v) \in 1..10000

====
